---------------------------- MODULE Spec2Model ----------------------------
(***************************************************************************)
(* A model of the instruction-file engine of `brief`:                      *)
(*   brief/updater.py    update_instruction_files and its helpers          *)
(*   brief/validator.py  validate_instructions and its helpers             *)
(* File contents, instructions and issues are character strings; the       *)
(* Python string methods the code uses (lower, strip, split, in,           *)
(* startswith, join) are modelled character by character.                  *)
(***************************************************************************)
EXTENDS Integers, Sequences, FiniteSets, TLC

VARIABLES
    disk,     \* file path -> content on disk
    mtime,    \* file path -> modification time (st_mtime)
    fault,    \* file path -> how I/O on that file fails, if it does
    call,     \* the last operation called, with its arguments
    ret,      \* what that call returned (or that it raised)
    pre,      \* the disk as it was when that call started
    reads     \* the files that call read (read_text attempted)

vars == <<disk, mtime, fault, call, ret, pre, reads>>

(***************************************************************************)
(* Python values                                                           *)
(***************************************************************************)

\* Optional[T]: None is the empty tuple, a present value x is <<x>>.
None == << >>

Some(x) == <<x>>

\* The empty dict.
EmptyDict == [x \in {} |-> x]

\* d[k] = v on a dict d (a function on the set of its keys).
DictSet(d, k, v) == [x \in (DOMAIN d) \cup {k} |-> IF x = k THEN v ELSE d[x]]

\* The set of elements of a list.
Range(s) == {s[i] : i \in DOMAIN s}

\* s[i], the i-th character (1-based) of a string, as a one-character string.
Char(s, i) == SubSeq(s, i, i)

\* str.isspace() of one character: what strip() and split() treat as blank.
IsSpace(c) == c \in {" ", "\n", "\t", "\r"}

\* str.lower() of one character.
LowerChar(c) ==
    CASE c = "A" -> "a" [] c = "B" -> "b" [] c = "C" -> "c" [] c = "D" -> "d"
      [] c = "E" -> "e" [] c = "F" -> "f" [] c = "G" -> "g" [] c = "H" -> "h"
      [] c = "I" -> "i" [] c = "J" -> "j" [] c = "K" -> "k" [] c = "L" -> "l"
      [] c = "M" -> "m" [] c = "N" -> "n" [] c = "O" -> "o" [] c = "P" -> "p"
      [] c = "Q" -> "q" [] c = "R" -> "r" [] c = "S" -> "s" [] c = "T" -> "t"
      [] c = "U" -> "u" [] c = "V" -> "v" [] c = "W" -> "w" [] c = "X" -> "x"
      [] c = "Y" -> "y" [] c = "Z" -> "z" [] OTHER -> c

RECURSIVE lower(_)
\* str.lower()
lower(s) ==
    IF Len(s) <= 1 THEN LowerChar(s)
    ELSE lower(SubSeq(s, 1, Len(s) \div 2)) \o lower(SubSeq(s, Len(s) \div 2 + 1, Len(s)))

RECURSIVE lstrip(_)
\* str.lstrip()
lstrip(s) == IF s # "" /\ IsSpace(Char(s, 1)) THEN lstrip(Tail(s)) ELSE s

RECURSIVE rstrip(_)
\* str.rstrip()
rstrip(s) ==
    IF s # "" /\ IsSpace(Char(s, Len(s))) THEN rstrip(SubSeq(s, 1, Len(s) - 1)) ELSE s

\* str.strip()
strip(s) == lstrip(rstrip(s))

\* needle in hay
contains(hay, needle) ==
    \E i \in 0..(Len(hay) - Len(needle)) : SubSeq(hay, i + 1, i + Len(needle)) = needle

\* s.startswith(p)
startswith(s, p) == Len(p) <= Len(s) /\ SubSeq(s, 1, Len(p)) = p

\* The least element of a non-empty set of integers.
Min(S) == CHOOSE i \in S : \A j \in S : i <= j

\* The least i in 1..Len(s) with s[i] = "\n", or Len(s)+1.
FirstNewline(s) == Min({i \in 1..Len(s) : Char(s, i) = "\n"} \cup {Len(s) + 1})

\* The least i in 1..Len(s) with s[i] blank, or Len(s)+1.
FirstSpace(s) == Min({i \in 1..Len(s) : IsSpace(Char(s, i))} \cup {Len(s) + 1})

RECURSIVE split_lines(_)
\* s.split("\n"): the list of lines, one more than the number of "\n".
split_lines(s) ==
    LET k == FirstNewline(s)
    IN  IF k > Len(s) THEN <<s>>
        ELSE <<SubSeq(s, 1, k - 1)>> \o split_lines(SubSeq(s, k + 1, Len(s)))

RECURSIVE split(_)
\* s.split(): the list of the maximal blank-free runs of s.
split(s) ==
    LET t == lstrip(s)
        k == FirstSpace(t)
    IN  IF t = "" THEN << >>
        ELSE <<SubSeq(t, 1, k - 1)>> \o split(SubSeq(t, k, Len(t)))

RECURSIVE join(_, _)
\* sep.join(parts)
join(sep, parts) ==
    IF parts = << >> THEN ""
    ELSE IF Len(parts) = 1 THEN parts[1]
    ELSE parts[1] \o sep \o join(sep, Tail(parts))

\* list.insert(i, x) with a 0-based index i <= len(list).
list_insert(l, i, x) == SubSeq(l, 1, i) \o <<x>> \o SubSeq(l, i + 1, Len(l))


(***************************************************************************)
(* brief/updater.py                                                        *)
(***************************************************************************)

\* The 0.8 of `overlap >= 0.8`, in tenths: k/n >= 0.8 iff 10*k >= 8*n.
DuplicateOverlapTenths == 8

\* A contextualization where the test framework replaces the language
\* annotation instead of following it.
_contextualize_instruction_not_stacking(instruction, context) ==
    IF contains(lower(instruction), "test") /\ context.test_framework # None
    THEN instruction \o " using " \o context.test_framework[1]
    ELSE IF Len(context.languages) = 1
    THEN instruction \o " (this is a " \o context.languages[1] \o " project)"
    ELSE IF Len(context.languages) > 1
    THEN instruction \o " (languages: " \o join(", ", context.languages) \o ")"
    ELSE instruction

\* _contextualize_instruction(instruction, context): context is a record
\* [languages: list of strings, test_framework: Optional string].
_contextualize_instruction(instruction, context) ==
    LET langs == context.languages
        with_langs ==
            IF Len(langs) = 1
            THEN instruction \o " (this is a " \o langs[1] \o " project)"
            ELSE IF Len(langs) > 1
            THEN instruction \o " (languages: " \o join(", ", langs) \o ")"
            ELSE instruction
    IN  IF contains(lower(instruction), "test") /\ context.test_framework # None
        THEN with_langs \o " using " \o context.test_framework[1]
        ELSE with_langs

\* A duplicate check that looks for the list line of the raw instruction only.
_instruction_exists_as_list_line(content, instruction) ==
    \E k \in DOMAIN split_lines(content) : split_lines(content)[k] = "- " \o instruction

\* A duplicate check whose line overlap must exceed 0.8.
_instruction_exists_above_threshold(content, instruction) ==
    LET instruction_words == Range(split(strip(lower(instruction))))
        lines == split_lines(content)
    IN  \/ contains(strip(lower(content)), strip(lower(instruction)))
        \/ \E k \in DOMAIN lines :
              /\ Cardinality(instruction_words) > 0
              /\ 10 * Cardinality(instruction_words \cap Range(split(lower(lines[k]))))
                     > DuplicateOverlapTenths * Cardinality(instruction_words)

\* _instruction_exists(content, instruction)
_instruction_exists(content, instruction) ==
    LET normalized_content == strip(lower(content))
        normalized_instruction == strip(lower(instruction))
        instruction_words == Range(split(normalized_instruction))
        lines == split_lines(content)
    IN  IF contains(normalized_content, normalized_instruction) THEN TRUE
        ELSE \E k \in DOMAIN lines :
                LET line_words == Range(split(lower(lines[k])))
                IN  /\ Cardinality(instruction_words) > 0
                    /\ 10 * Cardinality(instruction_words \cap line_words)
                         >= DuplicateOverlapTenths * Cardinality(instruction_words)

\* The section_keywords table of _find_best_section.
section_keywords == <<
    [key |-> "## Behaviors", keywords |-> <<"behavior", "workflow", "process", "procedure">>],
    [key |-> "## Development Workflow",
                             keywords |-> <<"commit", "test", "deploy", "build", "workflow">>],
    [key |-> "## Testing", keywords |-> <<"test", "pytest", "jest", "validate">>],
    [key |-> "## Code Style", keywords |-> <<"style", "format", "lint", "convention">>],
    [key |-> "## Documentation", keywords |-> <<"document", "doc", "comment", "readme">>],
    [key |-> "## Security", keywords |-> <<"security", "secret", "auth", "vulnerability">>] >>

\* The keywords of one table entry found in the lower-cased instruction.
KeywordHits(entry, instruction_lower) ==
    Cardinality({k \in DOMAIN entry.keywords :
                    contains(instruction_lower, entry.keywords[k])})

RECURSIVE SectionScoreFrom(_, _, _)
\* The inner loops of _find_best_section: the score of one header, summed over
\* the table entries from the k-th on whose key occurs in the header.
SectionScoreFrom(k, section, instruction_lower) ==
    IF k > Len(section_keywords) THEN 0
    ELSE (IF contains(lower(section), lower(section_keywords[k].key))
          THEN KeywordHits(section_keywords[k], instruction_lower) ELSE 0)
         + SectionScoreFrom(k + 1, section, instruction_lower)

\* The score _find_best_section gives an existing header.
SectionScore(section, instruction) == SectionScoreFrom(1, section, lower(instruction))

\* `line.strip().startswith("##") and not line.strip().startswith("###")`
IsSecondLevelHeader(line) ==
    startswith(strip(line), "##") /\ ~startswith(strip(line), "###")

RECURSIVE existing_sections(_)
\* The stripped second-level header lines, in file order.
existing_sections(lines) ==
    IF lines = << >> THEN << >>
    ELSE (IF IsSecondLevelHeader(lines[1]) THEN <<strip(lines[1])>> ELSE << >>)
         \o existing_sections(Tail(lines))

\* A comparison that lets a later header of equal score win.
BetterScore_OrEqual(score, best_score) == score >= best_score

\* `if score > best_score`
BetterScore(score, best_score) == score > best_score

RECURSIVE BestSectionLoop(_, _, _, _)
\* The scoring loop of _find_best_section over sections[k..].
BestSectionLoop(sections, instruction, best_section, best_score) ==
    IF sections = << >> THEN best_section
    ELSE LET score == SectionScore(sections[1], instruction)
         IN  IF BetterScore(score, best_score)
             THEN BestSectionLoop(Tail(sections), instruction, Some(sections[1]), score)
             ELSE BestSectionLoop(Tail(sections), instruction, best_section, best_score)

\* _find_best_section(content, instruction, context): None or Some(header).
_find_best_section(content, instruction) ==
    BestSectionLoop(existing_sections(split_lines(content)), instruction, None, 0)

\* lines[p] for a 0-based index p.
At(lines, p) == lines[p + 1]

RECURSIVE SkipBlank(_, _)
\* `while p < len(lines) and not lines[p].strip(): p += 1`
SkipBlank(lines, p) ==
    IF p < Len(lines) /\ strip(At(lines, p)) = "" THEN SkipBlank(lines, p + 1) ELSE p

RECURSIVE SkipItems(_, _)
\* `while p < len(lines): if blank or startswith("##"): break; p += 1`
SkipItems(lines, p) ==
    IF p < Len(lines) /\ strip(At(lines, p)) # ""
                     /\ ~startswith(strip(At(lines, p)), "##")
    THEN SkipItems(lines, p + 1) ELSE p

\* The first of the 0-based line indexes `hits`, or None: `for i, line in
\* enumerate(lines): if <hit>: ...; break`.
FirstIndex(hits) == IF hits = {} THEN None ELSE Some(Min(hits))

\* The 0-based indexes of a list.
Indexes(lines) == 0..(Len(lines) - 1)

\* The reserved fallback header.
additional_section == "## Additional Instructions"

\* An insertion into the selected section that writes the list line over the
\* line found at the insertion point.
InsertInSection_Overwriting(lines, instruction, i) ==
    LET after_blanks == SkipBlank(lines, i + 1)
        insert_position ==
            IF after_blanks < Len(lines) /\ strip(At(lines, after_blanks)) # ""
            THEN SkipItems(lines, after_blanks) ELSE after_blanks
    IN  join("\n", SubSeq(lines, 1, insert_position)
                   \o <<"- " \o instruction, "">>
                   \o SubSeq(lines, insert_position + 2, Len(lines)))

\* The selected-section branch of _insert_instruction: the position after the
\* section's first block, the list line and a blank line inserted there.
InsertInSection(lines, instruction, i) ==
    LET after_blanks == SkipBlank(lines, i + 1)
        insert_position ==
            IF after_blanks < Len(lines) /\ strip(At(lines, after_blanks)) # ""
            THEN SkipItems(lines, after_blanks) ELSE after_blanks
    IN  join("\n", list_insert(list_insert(lines, insert_position, "- " \o instruction),
                               insert_position + 1, ""))

\* A fallback that sets a new section off from the content by a blank line.
InsertFallback_BlankLineBefore(content, lines, instruction) ==
    LET found == FirstIndex({p \in Indexes(lines) :
                                contains(At(lines, p), additional_section)})
    IN  IF found # None
        THEN LET insert_position == SkipItems(lines, SkipBlank(lines, found[1] + 1))
             IN  join("\n", list_insert(lines, insert_position, "- " \o instruction))
        ELSE IF rstrip(content) # ""
        THEN rstrip(content) \o "\n\n" \o additional_section \o "\n\n- " \o instruction \o "\n"
        ELSE rstrip(content) \o additional_section \o "\n\n- " \o instruction \o "\n"

\* A fallback that puts the new line directly under the header of the existing
\* section.
InsertFallback_AfterHeader(content, lines, instruction) ==
    LET found == FirstIndex({p \in Indexes(lines) :
                                contains(At(lines, p), additional_section)})
    IN  IF found # None
        THEN join("\n", list_insert(lines, found[1] + 1, "- " \o instruction))
        ELSE IF rstrip(content) # ""
        THEN rstrip(content) \o "\n" \o additional_section \o "\n\n- " \o instruction \o "\n"
        ELSE rstrip(content) \o additional_section \o "\n\n- " \o instruction \o "\n"

\* A fallback that appends a section of its own each time.
InsertFallback_AlwaysNew(content, lines, instruction) ==
    IF rstrip(content) # ""
    THEN rstrip(content) \o "\n" \o additional_section \o "\n\n- " \o instruction \o "\n"
    ELSE rstrip(content) \o additional_section \o "\n\n- " \o instruction \o "\n"

\* The fallback of _insert_instruction: into the existing section, or a new one.
InsertFallback(content, lines, instruction) ==
    LET found == FirstIndex({p \in Indexes(lines) :
                                contains(At(lines, p), additional_section)})
    IN  IF found # None
        THEN LET insert_position == SkipItems(lines, SkipBlank(lines, found[1] + 1))
             IN  join("\n", list_insert(lines, insert_position, "- " \o instruction))
        ELSE IF rstrip(content) # ""
        THEN rstrip(content) \o "\n" \o additional_section \o "\n\n- " \o instruction \o "\n"
        ELSE rstrip(content) \o additional_section \o "\n\n- " \o instruction \o "\n"

\* An insertion that starts the fallback section afresh: what stood under its
\* header is dropped.
_insert_instruction_afresh(content, instruction) ==
    LET lines == split_lines(content)
        best_section == _find_best_section(content, instruction)
        found == IF best_section = None THEN None
                 ELSE FirstIndex({p \in Indexes(lines) :
                                     strip(At(lines, p)) = best_section[1]})
        header == FirstIndex({p \in Indexes(lines) :
                                 contains(At(lines, p), additional_section)})
    IN  IF found # None
        THEN InsertInSection(lines, instruction, found[1])
        ELSE IF header # None
        THEN join("\n", SubSeq(lines, 1, header[1] + 1)
                            \o <<"", "- " \o instruction, "">>)
        ELSE InsertFallback(content, lines, instruction)

\* _insert_instruction(content, instruction, file_path, context)
_insert_instruction(content, instruction) ==
    LET lines == split_lines(content)
        best_section == _find_best_section(content, instruction)
        found == IF best_section = None THEN None
                 ELSE FirstIndex({p \in Indexes(lines) :
                                     strip(At(lines, p)) = best_section[1]})
    IN  IF found # None
        THEN InsertInSection(lines, instruction, found[1])
        ELSE InsertFallback(content, lines, instruction)

(***************************************************************************)
(* brief/validator.py: topics                                              *)
(***************************************************************************)

\* The characters the pattern \w matches (ASCII letters, digits, underscore).
WordChars == "abcdefghijklmnopqrstuvwxyzABCDEFGHIJKLMNOPQRSTUVWXYZ0123456789_"

\* The characters the pattern \d matches.
Digits == "0123456789"

\* c, one character, is matched by \w.
IsWordChar(c) == contains(WordChars, c)

\* c, one character, is matched by \d.
IsDigit(c) == contains(Digits, c)

\* The alternatives of the prefix pattern of _normalize_topic, in its order.
TopicPrefixes == <<"always", "never", "must", "should", "do not", "don't">>

\* re.sub(r'^(always|never|must|should|do not|don\'t)\s+', '', topic): the
\* first alternative that starts the topic and is followed by a blank is cut
\* off, with all the blanks after it.
StripTopicPrefix(topic) ==
    LET hits == {k \in DOMAIN TopicPrefixes :
                    /\ startswith(topic, TopicPrefixes[k])
                    /\ Len(topic) > Len(TopicPrefixes[k])
                    /\ IsSpace(Char(topic, Len(TopicPrefixes[k]) + 1))}
    IN  IF hits = {} THEN topic
        ELSE lstrip(SubSeq(topic, Len(TopicPrefixes[Min(hits)]) + 1, Len(topic)))

\* re.sub(r'[^\w\s]', '', topic): only word characters and blanks are kept.
RECURSIVE StripPunctuation(_)
StripPunctuation(topic) ==
    IF Len(topic) = 0 THEN ""
    ELSE IF Len(topic) = 1
    THEN (IF IsWordChar(topic) \/ IsSpace(topic) THEN topic ELSE "")
    ELSE StripPunctuation(SubSeq(topic, 1, Len(topic) \div 2))
         \o StripPunctuation(SubSeq(topic, Len(topic) \div 2 + 1, Len(topic)))

\* _normalize_topic(topic)
_normalize_topic(topic) ==
    join(" ", split(StripPunctuation(StripTopicPrefix(lower(topic)))))

\* line.lstrip("#")
RECURSIVE lstrip_hashes(_)
lstrip_hashes(line) ==
    IF line # "" /\ Char(line, 1) = "#" THEN lstrip_hashes(Tail(line)) ELSE line

\* The least i >= from with line[i..i+1] = "**", or 0 when there is none.
NextStars(line, from) ==
    LET hits == {i \in from..(Len(line) - 1) : SubSeq(line, i, i + 1) = "**"}
    IN  IF hits = {} THEN 0 ELSE Min(hits)

RECURSIVE BoldSpans(_, _)
\* re.finditer(r'\*\*(.+?)\*\*', line) from position `from` on: the groups of
\* the successive leftmost, shortest matches.
BoldSpans(line, from) ==
    LET open == NextStars(line, from)
        close == IF open = 0 THEN 0 ELSE NextStars(line, open + 3)
    IN  IF open = 0 \/ close = 0 THEN << >>
        ELSE <<SubSeq(line, open + 2, close - 1)>> \o BoldSpans(line, close + 2)

\* The length of the run of digits of line that starts at position i.
RECURSIVE DigitRun(_, _)
DigitRun(line, i) ==
    IF i <= Len(line) /\ IsDigit(Char(line, i)) THEN 1 + DigitRun(line, i + 1) ELSE 0

RECURSIVE RemoveNumbering(_, _)
\* The `\d+\.` alternative of re.sub(r'^[-*•]|\d+\.', '', line) from position
\* i on: every run of digits that a dot follows is removed with its dot.
RemoveNumbering(line, i) ==
    IF i > Len(line) THEN ""
    ELSE LET n == DigitRun(line, i)
         IN  IF n = 0 THEN Char(line, i) \o RemoveNumbering(line, i + 1)
             ELSE IF i + n <= Len(line) /\ Char(line, i + n) = "."
             THEN RemoveNumbering(line, i + n + 1)
             ELSE SubSeq(line, i, i + n - 1) \o RemoveNumbering(line, i + n)

\* line.startswith(("-", "*", "•"))
StartsWithBullet(line) == startswith(line, "-") \/ startswith(line, "*")

\* re.match(r'^\d+\.', line)
StartsWithNumber(line) ==
    DigitRun(line, 1) > 0 /\ Char(line, DigitRun(line, 1) + 1) = "."

\* re.sub(r'^[-*•]|\d+\.', '', line).strip()
RemoveListMarker(line) ==
    strip(IF StartsWithBullet(line) THEN RemoveNumbering(line, 2)
          ELSE RemoveNumbering(line, 1))

\* The most words a bold span may have to become a topic.
MaxBoldWords == 6

\* The most words a list item may have to become a topic.
MaxItemWords == 8

\* The topics one line of _extract_instruction_topics adds.
LineTopics(raw_line) ==
    LET line == strip(raw_line)
        bold == BoldSpans(line, 1)
        item == RemoveListMarker(line)
    IN  (IF startswith(line, "##")
         THEN {_normalize_topic(strip(lstrip_hashes(line)))} ELSE {})
        \cup {_normalize_topic(bold[k]) :
                 k \in {j \in DOMAIN bold : Len(split(bold[j])) <= MaxBoldWords}}
        \cup (IF /\ StartsWithBullet(line) \/ StartsWithNumber(line)
                 /\ item # ""
                 /\ Len(split(item)) <= MaxItemWords
              THEN {_normalize_topic(item)} ELSE {})

\* _extract_instruction_topics(content)
_extract_instruction_topics(content) ==
    UNION {LineTopics(split_lines(content)[k]) : k \in DOMAIN split_lines(content)}

\* The 0.5 default threshold of _has_similar_topic, in tenths.
TopicThresholdTenths == 5

\* _has_similar_topic(content, topic)
_has_similar_topic(content, topic) ==
    LET content_topics == _extract_instruction_topics(content)
        topic_words == Range(split(lower(topic)))
    IN  \/ topic \in content_topics
        \/ \E content_topic \in content_topics :
              /\ Cardinality(topic_words) # 0
              /\ 10 * Cardinality(topic_words \cap Range(split(lower(content_topic))))
                    >= TopicThresholdTenths * Cardinality(topic_words)

(***************************************************************************)
(* brief/validator.py: similarity and the two checks                       *)
(***************************************************************************)

\* The `lines: int = 10` default of _extract_recent_instructions.
RecentLines == 10

\* A trailing line _extract_recent_instructions drops: blank, or metadata.
IsTrailer(line) ==
    \/ strip(line) = ""
    \/ startswith(strip(line), "---")
    \/ startswith(strip(line), "Last updated:")

RECURSIVE DropTrailers(_)
\* `while content_lines and (<trailer>): content_lines.pop()`
DropTrailers(content_lines) ==
    IF content_lines # << >> /\ IsTrailer(content_lines[Len(content_lines)])
    THEN DropTrailers(SubSeq(content_lines, 1, Len(content_lines) - 1))
    ELSE content_lines

\* l[-n:], the last n elements of a list.
LastN(l, n) == IF Len(l) <= n THEN l ELSE SubSeq(l, Len(l) - n + 1, Len(l))

\* _extract_recent_instructions(content)
_extract_recent_instructions(content) ==
    join("\n", LastN(DropTrailers(split_lines(strip(content))), RecentLines))

\* The starts i of the blocks of a of length k that occur in b.
CommonBlocks(a, b, k) ==
    {i \in 1..(Len(a) - k + 1) : contains(b, SubSeq(a, i, i + k - 1))}

RECURSIVE LongestCommon(_, _, _)
\* The length of the longest block a and b share that is at most k long.
LongestCommon(a, b, k) ==
    IF k = 0 \/ CommonBlocks(a, b, k) # {} THEN k ELSE LongestCommon(a, b, k - 1)

\* The smaller of two numbers.
Smaller(m, n) == IF m <= n THEN m ELSE n

\* SequenceMatcher.find_longest_match over all of a and b (no junk: both are
\* shorter than the 200 elements at which autojunk starts): [i, j, k], the
\* longest common block, the earliest in a, and of those the earliest in b.
find_longest_match(a, b) ==
    LET k == LongestCommon(a, b, Smaller(Len(a), Len(b)))
        i == IF k = 0 THEN 1 ELSE Min(CommonBlocks(a, b, k))
        j == IF k = 0 THEN 1
             ELSE Min({jj \in 1..(Len(b) - k + 1) :
                          SubSeq(b, jj, jj + k - 1) = SubSeq(a, i, i + k - 1)})
    IN  [i |-> i, j |-> j, k |-> k]

RECURSIVE MatchingChars(_, _)
\* The sum of the sizes of SequenceMatcher.get_matching_blocks(): the longest
\* match, and recursively the matches to its left and to its right.
MatchingChars(a, b) ==
    IF a = "" \/ b = "" THEN 0
    ELSE LET m == find_longest_match(a, b)
         IN  IF m.k = 0 THEN 0
             ELSE m.k + MatchingChars(SubSeq(a, 1, m.i - 1), SubSeq(b, 1, m.j - 1))
                      + MatchingChars(SubSeq(a, m.i + m.k, Len(a)),
                                      SubSeq(b, m.j + m.k, Len(b)))

\* The 0.6 default threshold of _content_contains_similar, in tenths.
SimilarThresholdTenths == 6

\* The fewest words a target needs for the sliding-window comparison.
MinWindowWords == 3

\* SequenceMatcher(None, a, b).ratio() >= threshold: ratio is 2.0 * M / T.
RatioReaches(a, b) ==
    IF Len(a) + Len(b) = 0 THEN TRUE
    ELSE 10 * 2 * MatchingChars(a, b) >= SimilarThresholdTenths * (Len(a) + Len(b))

\* _content_contains_similar(content, target)
_content_contains_similar(content, target) ==
    LET content_lower == lower(content)
        target_lower == lower(target)
        target_words == split(target_lower)
        content_words == split(content_lower)
        window_size == Len(target_words)
    IN  IF contains(content_lower, target_lower) THEN TRUE
        ELSE IF Len(target_words) < MinWindowWords THEN FALSE
        ELSE \E i \in 0..(Len(content_words) - window_size) :
                RatioReaches(target_lower,
                             join(" ", SubSeq(content_words, i + 1, i + window_size)))

\* file_path.name: what follows the last "/" of the path.
name(file_path) ==
    LET slashes == {i \in 1..Len(file_path) : Char(file_path, i) = "/"}
    IN  IF slashes = {} THEN file_path
        ELSE SubSeq(file_path, 1 + CHOOSE i \in slashes : \A j \in slashes : j <= i,
                    Len(file_path))

\* The keys of file_contents: the files of the list that were read, in order.
RECURSIVE ReadableFiles(_, _)
ReadableFiles(files, file_contents) ==
    IF files = << >> THEN << >>
    ELSE (IF files[1] \in DOMAIN file_contents THEN <<files[1]>> ELSE << >>)
         \o ReadableFiles(Tail(files), file_contents)

RECURSIVE SortNewestFirst(_, _)
\* sorted(keys, key=lambda f: f.stat().st_mtime, reverse=True): a stable sort,
\* files of equal time keep their order.
SortNewestFirst(keys, mt) ==
    IF keys = << >> THEN << >>
    ELSE LET newest == Min({k \in DOMAIN keys :
                               \A j \in DOMAIN keys : mt[keys[j]] <= mt[keys[k]]})
         IN  <<keys[newest]>>
             \o SortNewestFirst(SubSeq(keys, 1, newest - 1)
                                \o SubSeq(keys, newest + 1, Len(keys)), mt)

RECURSIVE MapName(_)
\* [f.name for f in files]
MapName(files) ==
    IF files = << >> THEN << >> ELSE <<name(files[1])>> \o MapName(Tail(files))

\* A search that stops at the first file that misses the sample.
MissingIn_FirstOnly(others, file_contents, newest_instructions) ==
    LET missing == {k \in DOMAIN others :
                       ~_content_contains_similar(file_contents[others[k]],
                                                  newest_instructions)}
    IN  IF missing = {} THEN << >> ELSE <<name(others[Min(missing)])>>

RECURSIVE MissingIn(_, _, _)
\* The files of `others`, in order, whose content does not hold the sample.
MissingIn(others, file_contents, newest_instructions) ==
    IF others = << >> THEN << >>
    ELSE (IF ~_content_contains_similar(file_contents[others[1]], newest_instructions)
          THEN <<name(others[1])>> ELSE << >>)
         \o MissingIn(Tail(others), file_contents, newest_instructions)

\* _check_latest_update(file_contents), keys being the dict's keys in order and
\* mt the modification times.
_check_latest_update(keys, file_contents, mt) ==
    LET files_by_mtime == SortNewestFirst(keys, mt)
        newest_file == files_by_mtime[1]
        newest_instructions == _extract_recent_instructions(file_contents[newest_file])
        missing_in == MissingIn(Tail(files_by_mtime), file_contents, newest_instructions)
    IN  IF Len(files_by_mtime) < 2 THEN << >>
        ELSE IF newest_instructions = "" THEN << >>
        ELSE IF missing_in = << >> THEN << >>
        ELSE << "Recent update in '" \o name(newest_file) \o "' may be missing from: "
                \o join(", ", missing_in) >>

\* The most topics an issue names.
MaxNamedTopics == 3

RECURSIVE FilterSeq(_, _)
\* The elements of list l that are in set S, in l's order.
FilterSeq(l, S) ==
    IF l = << >> THEN << >>
    ELSE (IF l[1] \in S THEN <<l[1]>> ELSE << >>) \o FilterSeq(Tail(l), S)

\* A coverage check that reports every topic a file lacks, without looking
\* for it under other wording.
ConsistencyIssue_NoFuzzy(file_path, keys, file_contents, topic_order) ==
    LET topics == _extract_instruction_topics(file_contents[file_path])
        in_others == UNION {_extract_instruction_topics(file_contents[keys[k]]) :
                               k \in {j \in DOMAIN keys : keys[j] # file_path}}
        actually_missing == FilterSeq(topic_order, in_others \ topics)
    IN  IF actually_missing = << >> THEN << >>
        ELSE << "'" \o name(file_path) \o "' may be missing guidance on: "
                \o join(", ", SubSeq(actually_missing, 1,
                                     Smaller(MaxNamedTopics, Len(actually_missing))))
                \o (IF Len(actually_missing) > MaxNamedTopics
                    THEN " (+" \o ToString(Len(actually_missing) - MaxNamedTopics)
                         \o " more)"
                    ELSE "") >>

\* The issue of _check_instruction_consistency for one file, if it has one.
\* topic_order is the order in which `for topic in all_topics` yields the set.
ConsistencyIssue(file_path, keys, file_contents, topic_order) ==
    LET topics == _extract_instruction_topics(file_contents[file_path])
        in_others == UNION {_extract_instruction_topics(file_contents[keys[k]]) :
                               k \in {j \in DOMAIN keys : keys[j] # file_path}}
        missing_topics == FilterSeq(topic_order, in_others \ topics)
        actually_missing ==
            FilterSeq(missing_topics,
                      {t \in Range(missing_topics) :
                          ~_has_similar_topic(file_contents[file_path], t)})
    IN  IF actually_missing = << >> THEN << >>
        ELSE << "'" \o name(file_path) \o "' may be missing guidance on: "
                \o join(", ", SubSeq(actually_missing, 1,
                                     Smaller(MaxNamedTopics, Len(actually_missing))))
                \o (IF Len(actually_missing) > MaxNamedTopics
                    THEN " (+" \o ToString(Len(actually_missing) - MaxNamedTopics)
                         \o " more)"
                    ELSE "") >>

RECURSIVE ConsistencyLoop(_, _, _, _)
\* `for file_path, topics in file_topics.items():` over files[..].
ConsistencyLoop(files, keys, file_contents, topic_order) ==
    IF files = << >> THEN << >>
    ELSE ConsistencyIssue(files[1], keys, file_contents, topic_order)
         \o ConsistencyLoop(Tail(files), keys, file_contents, topic_order)

\* all_topics of _check_instruction_consistency.
all_topics(file_contents) ==
    UNION {_extract_instruction_topics(file_contents[f]) : f \in DOMAIN file_contents}

\* The orders in which a set can be iterated: its elements, each once.
IterationOrders(S) ==
    {o \in [1..Cardinality(S) -> S] : Range(o) = S}

\* _check_instruction_consistency(file_contents), all_topics being iterated in
\* topic_order.
_check_instruction_consistency(keys, file_contents, topic_order) ==
    ConsistencyLoop(keys, keys, file_contents, topic_order)

\* Path.read_text(): the content, or the exception it raises. A file that
\* cannot be opened (or is gone) raises OSError; one whose bytes are not valid text raises
\* UnicodeDecodeError, a ValueError and not an OSError.
read_text(d, file_path) ==
    CASE fault[file_path] \in {"read_oserror", "missing"} -> [raises |-> "OSError"]
      [] fault[file_path] = "read_decode" -> [raises |-> "UnicodeDecodeError"]
      [] OTHER -> [raises |-> "", text |-> d[file_path]]

\* The modification times after file_path is written: it becomes the newest
\* file. Only the order of the times is kept (the code only sorts by st_mtime),
\* as ranks 0, 1, ...
touch(mt, file_path) ==
    LET newest == [mt EXCEPT ![file_path] = 1 + Cardinality(DOMAIN mt)]
    IN  [f \in DOMAIN mt |->
            Cardinality({newest[g] : g \in {h \in DOMAIN mt : newest[h] < newest[f]}})]

\* Path.write_text(data) on the filesystem st (disk, mtime): open(mode="w")
\* truncates and then the data is written; a refused open leaves the file as it
\* was, a write that fails after the open leaves it truncated. Both raise OSError.
write_text(st, file_path, data) ==
    CASE fault[file_path] = "write_denied" -> st
      [] fault[file_path] = "write_nospace" ->
            [st EXCEPT !.disk[file_path] = "", !.mtime = touch(@, file_path)]
      [] OTHER ->
            [st EXCEPT !.disk[file_path] = data, !.mtime = touch(@, file_path)]

\* A skipped file reported as changed.
SkippedEntry_Changed(content) ==
    [old_content |-> content, new_content |-> content, was_updated |-> TRUE]

\* `updates[file_path] = (content, content, False)`
SkippedEntry(content) ==
    [old_content |-> content, new_content |-> content, was_updated |-> FALSE]

\* An updated file reported with the content it had.
UpdatedEntry_KeepingContent(content, updated_content) ==
    [old_content |-> content, new_content |-> content, was_updated |-> TRUE]

\* `updates[file_path] = (content, updated_content, True)`
UpdatedEntry(content, updated_content) ==
    [old_content |-> content, new_content |-> updated_content, was_updated |-> TRUE]

\* A write that does not look at the preview flag.
ShouldWrite_IgnoringPreview(preview, content, updated_content) ==
    updated_content # content

\* `if not preview and updated_content != content`
ShouldWrite(preview, content, updated_content) ==
    ~preview /\ updated_content # content

\* One iteration of the loop of update_instruction_files, on the running state
\* st = [disk, mtime, updates, reads, raised].
UpdateOneFile(st, file_path, instruction, context, preview) ==
    LET got == read_text(st.disk, file_path)
        st1 == [st EXCEPT !.reads = @ \cup {file_path}]
    IN  IF got.raises = "OSError" THEN st1
        ELSE IF got.raises # "" THEN [st1 EXCEPT !.raised = TRUE]
        ELSE LET content == got.text
             IN  IF _instruction_exists(content, instruction)
                 THEN [st1 EXCEPT !.updates = DictSet(@, file_path, SkippedEntry(content))]
                 ELSE LET contextualized == _contextualize_instruction(instruction, context)
                          updated_content == _insert_instruction(content, contextualized)
                          st2 == [st1 EXCEPT !.updates =
                                     DictSet(@, file_path,
                                             UpdatedEntry(content, updated_content))]
                      IN  IF ShouldWrite(preview, content, updated_content)
                          THEN write_text(st2, file_path, updated_content)
                          ELSE st2

RECURSIVE UpdateLoop(_, _, _, _, _)
\* `for file_path in files:` an exception that is not caught ends the loop.
UpdateLoop(st, files, instruction, context, preview) ==
    IF files = << >> \/ st.raised THEN st
    ELSE UpdateLoop(UpdateOneFile(st, files[1], instruction, context, preview),
                    Tail(files), instruction, context, preview)

\* update_instruction_files(files, instruction, context, preview), run on the
\* current filesystem: the filesystem it leaves and what it returns.
update_instruction_files(files, instruction, context, preview) ==
    UpdateLoop([disk |-> disk, mtime |-> mtime,
                updates |-> EmptyDict, reads |-> {}, raised |-> FALSE],
               files, instruction, context, preview)

\* A validator whose latest-update check is on unless switched off.
DefaultCheckLatest_Enabled == TRUE

\* The `check_latest: bool = False` default of validate_instructions.
DefaultCheckLatest == FALSE

\* The `check_all: bool = True` default of validate_instructions.
DefaultCheckAll == TRUE

\* file_path.exists()
exists(file_path) == fault[file_path] # "missing"

\* str(e) of the OSError read_text raised.
OSErrorText == "[Errno 13] Permission denied"

\* A validator that tidies the file it has read: it writes it back trimmed.
ValidateReadFile_Rewriting(st, file_path) ==
    IF ~exists(file_path)
    THEN [st EXCEPT !.issues = Append(@, "File not found: " \o file_path)]
    ELSE LET got == read_text(st.disk, file_path)
             st1 == [st EXCEPT !.reads = @ \cup {file_path}]
         IN  IF got.raises = "OSError"
             THEN [st1 EXCEPT !.issues =
                      Append(@, "Cannot read " \o name(file_path) \o ": " \o OSErrorText)]
             ELSE IF got.raises # "" THEN [st1 EXCEPT !.raised = TRUE]
             ELSE [st1 EXCEPT !.file_contents = DictSet(@, file_path, got.text),
                              !.disk[file_path] = strip(got.text)]

\* One iteration of the reading loop of validate_instructions, on the running
\* state st = [disk, file_contents, issues, reads, raised].
ValidateReadFile(st, file_path) ==
    IF ~exists(file_path)
    THEN [st EXCEPT !.issues = Append(@, "File not found: " \o file_path)]
    ELSE LET got == read_text(st.disk, file_path)
             st1 == [st EXCEPT !.reads = @ \cup {file_path}]
         IN  IF got.raises = "OSError"
             THEN [st1 EXCEPT !.issues =
                      Append(@, "Cannot read " \o name(file_path) \o ": " \o OSErrorText)]
             ELSE IF got.raises # "" THEN [st1 EXCEPT !.raised = TRUE]
             ELSE [st1 EXCEPT !.file_contents = DictSet(@, file_path, got.text)]

RECURSIVE ValidateReadLoop(_, _)
\* `for file_path in files:` an exception that is not caught ends the loop.
ValidateReadLoop(st, files) ==
    IF files = << >> \/ st.raised THEN st
    ELSE ValidateReadLoop(ValidateReadFile(st, files[1]), Tail(files))

\* A validator that reads its files whatever their number.
TooFewFiles_Never(files) == FALSE

\* `if len(files) < 2:`
TooFewFiles(files) == Len(files) < 2

\* What validate_instructions returns: (all_valid, issues).
Verdict(all_valid, issues) == [all_valid |-> all_valid, issues |-> issues]

\* validate_instructions(files, project_path, check_latest, check_all), run on
\* the current filesystem, all_topics being iterated in topic_order: the
\* filesystem it leaves, the files it read and what it returns.
validate_instructions(files, check_latest, check_all, topic_order) ==
    LET start == [disk |-> disk, file_contents |-> EmptyDict, issues |-> << >>,
                  reads |-> {}, raised |-> FALSE, value |-> None]
        st == ValidateReadLoop(start, files)
        keys == ReadableFiles(files, st.file_contents)
    IN  IF files = << >>
        THEN [start EXCEPT !.value = Verdict(FALSE, <<"No instruction files found">>)]
        ELSE IF TooFewFiles(files)
        THEN [start EXCEPT !.value = Verdict(TRUE, << >>)]
        ELSE IF st.raised THEN st
        ELSE IF Len(keys) < 2
        THEN [st EXCEPT !.value = Verdict(Len(st.issues) = 0, st.issues)]
        ELSE LET issues ==
                    st.issues
                    \o (IF check_latest
                        THEN _check_latest_update(keys, st.file_contents, mtime)
                        ELSE << >>)
                    \o (IF check_all
                        THEN _check_instruction_consistency(keys, st.file_contents,
                                                            topic_order)
                        ELSE << >>)
             IN  [st EXCEPT !.value = Verdict(Len(issues) = 0, issues)]

\* The topics `for topic in all_topics` runs over in a call on `files`: those
\* of the files of the list that can be read.
TopicsOf(files) ==
    UNION {_extract_instruction_topics(disk[f]) :
              f \in {g \in Range(files) : fault[g] \in {"none", "write_denied",
                                                        "write_nospace"}}}

(***************************************************************************)
(* The state machine: a project with its instruction files, and the calls  *)
(* a shell makes on it.                                                    *)
(***************************************************************************)

\* The instruction files of the project, in discovery order.
AllFiles == <<"AGENTS.md", "CLAUDE.md">>

FileSet == Range(AllFiles)

\* The file lists a caller passes.
FileLists == {<< >>, <<"AGENTS.md">>, <<"CLAUDE.md">>, AllFiles}

\* How I/O on a file can fail.
Faults == {"none", "read_oserror", "read_decode", "write_denied", "write_nospace"}

\* How a file can fail a validation: it is gone, or cannot be read.
ValidateFaults == {"none", "missing", "read_oserror", "read_decode"}

\* The contents the files start with when they are validated.
ValidateContents == {
    "",
    "- run all tests\n",
    "- run all test\n",
    "## Style\n- Use lint!\n---\n" }

\* The options a caller of validate_instructions passes: none (the defaults
\* apply), or <<check_latest, check_all>>.
ValidateOptions == {<< >>} \cup (BOOLEAN \X BOOLEAN)

\* The contents the files start with.
Contents == {
    "",
    "## Development Workflow\n- build\n\n## Testing\n\n## Code Style\n- tidy\n",
    "## Additional Instructions\n\n- Be Kind\n",
    "# Rules\n- always run unit tests\n" }

\* The instructions a caller adds.
Instructions == {
    "Run pytest before committing",
    "Run pytest",
    "Use Lint",
    "Be kind",
    "Always run all unit tests" }

\* The project contexts analyze_project_context hands to the updater.
Contexts == {
    [languages |-> << >>, test_framework |-> None],
    [languages |-> <<"Python">>, test_framework |-> Some("pytest")] }

Init ==
    /\ disk \in [FileSet -> Contents]
    /\ fault \in [FileSet -> Faults]
    /\ mtime = [f \in FileSet |-> 0]
    /\ call = [op |-> "none"]
    /\ ret = [raised |-> FALSE, value |-> None]
    /\ pre = disk
    /\ reads = {}

\* A shell runs update_instruction_files on the discovered files. The passes of
\* one command (a preview pass, then the applying pass) carry the same
\* instruction and context.
Update ==
    \E instruction \in Instructions, context \in Contexts, preview \in BOOLEAN :
        /\ call.op = "update" =>
              instruction = call.instruction /\ context = call.context
        /\ \E r \in {update_instruction_files(AllFiles, instruction, context, preview)} :
            /\ disk' = r.disk
            /\ mtime' = r.mtime
            /\ call' = [op |-> "update", files |-> AllFiles, instruction |-> instruction,
                        context |-> context, preview |-> preview]
            /\ ret' = [raised |-> r.raised,
                       value |-> IF r.raised THEN None ELSE r.updates]
            /\ pre' = disk
            /\ reads' = r.reads
            /\ UNCHANGED fault

Next == Update

Spec == Init /\ [][Next]_vars

\* A project whose files differ in age and in what can be read.
InitValidate ==
    /\ disk \in [FileSet -> ValidateContents]
    /\ fault \in [FileSet -> ValidateFaults]
    /\ mtime \in {mt \in [FileSet -> 0..1] : 0 \in Range(mt)}
    /\ call = [op |-> "none"]
    /\ ret = [raised |-> FALSE, value |-> None]
    /\ pre = disk
    /\ reads = {}

\* A shell runs validate_instructions. What a validation returns depends on
\* the files alone, so a behaviour holds one validation of each project.
Validate ==
    /\ call.op = "none"
    /\ \E files \in FileLists, options \in ValidateOptions :
        LET check_latest == IF options = << >> THEN DefaultCheckLatest ELSE options[1]
            check_all == IF options = << >> THEN DefaultCheckAll ELSE options[2]
        IN  \E r \in {validate_instructions(files, check_latest, check_all, topic_order) :
                         topic_order \in IF check_all THEN IterationOrders(TopicsOf(files))
                                                      ELSE {<< >>}} :
            /\ disk' = r.disk
            /\ call' = [op |-> "validate", files |-> files, options |-> options]
            /\ ret' = [raised |-> r.raised, value |-> r.value]
            /\ pre' = disk
            /\ reads' = r.reads
            /\ UNCHANGED <<mtime, fault>>

NextValidate == Validate

SpecValidate == InitValidate /\ [][NextValidate]_vars

(***************************************************************************)
(* Properties of update_instruction_files                                  *)
(***************************************************************************)

\* The last call was an update that returned.
UpdateReturned == call.op = "update" /\ ~ret.raised

\* The instruction text the last update inserted: the contextualized one.
Contextualized == _contextualize_instruction(call.instruction, call.context)

\* C1: idempotence of update. When an update returned changed=true for a file
\* and the file holds that new content, the next update with the same
\* instruction and context returns changed=false for it and leaves the file as
\* it is.
C1_UpdateIdempotent ==
    [][ (UpdateReturned /\ call'.op = "update" /\ ~ret'.raised
            /\ call'.instruction = call.instruction /\ call'.context = call.context)
        => \A f \in (DOMAIN ret.value) \cap (DOMAIN ret'.value) :
              (ret.value[f].was_updated /\ disk[f] = ret.value[f].new_content)
              => /\ ~ret'.value[f].was_updated
                 /\ ret'.value[f].new_content = ret.value[f].new_content
                 /\ disk'[f] = disk[f] ]_vars

\* C1 witness: an applying update found, in a file, the annotated list line an
\* earlier update of the same command had inserted, and skipped the file.
C1_Witness ==
    /\ UpdateReturned /\ ~call.preview
    /\ call.context.languages # << >>
    /\ \E f \in DOMAIN ret.value :
          /\ ~ret.value[f].was_updated
          /\ contains(disk[f], "- " \o Contextualized)

\* C2: a preview update writes no file: every file's content after the call is
\* its content before the call, whatever the entries say.
C2_PreviewWritesNothing ==
    (call.op = "update" /\ call.preview) => disk = pre

\* C2 witness: a preview that returned an entry with changed=true.
C2_Witness ==
    /\ UpdateReturned /\ call.preview
    /\ \E f \in DOMAIN ret.value : ret.value[f].was_updated

\* C3: after an applying update returns, every file whose entry has
\* changed=true holds that entry's new_content.
C3_ChangedEntriesAreOnDisk ==
    (UpdateReturned /\ ~call.preview)
    => \A f \in DOMAIN ret.value :
          ret.value[f].was_updated => disk[f] = ret.value[f].new_content

\* C4: a file in which the duplicate check finds the instruction gets an entry
\* with changed=false and new_content = old_content, and is not written, also
\* by an applying update.
C4_DuplicateIsSkipped ==
    call.op = "update"
    => /\ \A f \in FileSet :
            _instruction_exists(pre[f], call.instruction) => disk[f] = pre[f]
       /\ ~ret.raised =>
            \A f \in DOMAIN ret.value :
                _instruction_exists(ret.value[f].old_content, call.instruction)
                => /\ ~ret.value[f].was_updated
                   /\ ret.value[f].new_content = ret.value[f].old_content

\* C4 witness: an applying update met a file that already held the instruction
\* and wrote another file of the batch.
C4_Witness ==
    /\ UpdateReturned /\ ~call.preview
    /\ \E f \in DOMAIN ret.value :
          _instruction_exists(ret.value[f].old_content, call.instruction)
    /\ disk # pre

\* read_text on the file fails.
ReadFails(f) == fault[f] \in {"read_oserror", "read_decode"}

\* C5: in a batch update a failure to read or write one file stays with that
\* file: the call does not raise, an unreadable file has no entry, and every
\* file without a failure is processed and, when applying, written.
C5_FailureIsolated ==
    call.op = "update"
    => /\ ~ret.raised
       /\ \A f \in FileSet :
            /\ ReadFails(f) => f \notin DOMAIN ret.value
            /\ fault[f] = "none" =>
                  /\ f \in DOMAIN ret.value
                  /\ (~call.preview /\ ret.value[f].was_updated)
                        => disk[f] = ret.value[f].new_content

\* A validation was called and returned.
ValidateReturned == call.op = "validate" /\ ~ret.raised

\* C6: a validation of no file returns (false, ["No instruction files
\* found"]); a validation of one file returns (true, []) whatever the file
\* holds and whether or not it can be read, and reads nothing.
C6_FewFilesReturnEarly ==
    call.op = "validate" /\ Len(call.files) < 2
    => /\ ~ret.raised
       /\ reads = {}
       /\ ret.value = IF call.files = << >>
                      THEN Verdict(FALSE, <<"No instruction files found">>)
                      ELSE Verdict(TRUE, << >>)

\* C6 witness: a validation of one file whose bytes cannot be decoded passed.
C6_Witness ==
    /\ ValidateReturned
    /\ Len(call.files) = 1
    /\ fault[call.files[1]] = "read_decode"
    /\ ret.value.all_valid

\* A validation was called on two files that are there and can be read.
TwoReadable ==
    /\ call.op = "validate"
    /\ Len(call.files) = 2
    /\ \A f \in Range(call.files) : fault[f] = "none"

\* The file_contents dict of a validation of readable files.
ContentsOnDisk == [f \in Range(call.files) |-> disk[f]]

\* What the latest-update check reports on the validated files.
LatestIssues == _check_latest_update(call.files, ContentsOnDisk, mtime)

\* What the topic coverage check can report on the validated files.
CoverageIssues ==
    {_check_instruction_consistency(call.files, ContentsOnDisk, topic_order) :
        topic_order \in IterationOrders(all_topics(ContentsOnDisk))}

\* Some issue of the returned list is a latest-update issue.
ReportsRecentUpdate ==
    \E k \in DOMAIN ret.value.issues : startswith(ret.value.issues[k], "Recent update")

\* C7 as stated: a validation with default options of two readable files
\* runs the latest-update check too, so it reports a "Recent update" issue when
\* the newest file's recent sample is missing from the other file.
C7_DefaultRunsBothChecks ==
    TwoReadable /\ call.options = << >> /\ LatestIssues # << >>
    => ~ret.raised /\ ReportsRecentUpdate

\* C7, amended: a validation with default options of two readable files runs
\* the topic coverage check alone: it returns that check's issues and never a
\* "Recent update" issue. The latest-update check runs when check_latest is
\* passed as true, and its issues then come first.
C7_DefaultRunsCoverageOnly ==
    TwoReadable
    => /\ ~ret.raised
       /\ call.options = << >>
          => /\ ret.value.issues \in CoverageIssues
             /\ ~ReportsRecentUpdate
       /\ call.options # << >> /\ call.options[1]
          => SubSeq(ret.value.issues, 1, Len(LatestIssues)) = LatestIssues
       /\ ret.value.all_valid = (ret.value.issues = << >>)

\* C7 witness: a validation with default options reported missing topics, and
\* no recent update, although the newest file's sample is missing from the
\* other file.
C7_Witness ==
    /\ TwoReadable
    /\ call.options = << >>
    /\ LatestIssues # << >>
    /\ ~ret.raised
    /\ ret.value.issues # << >>
    /\ ~ReportsRecentUpdate

\* C8: a validation leaves every file as it was, whatever the file list and
\* the checks that are enabled.
C8_ValidateLeavesFiles ==
    call.op = "validate" => disk = pre

\* C8 witness: a validation with both checks enabled read two files and
\* reported issues from both checks.
C8_Witness ==
    /\ TwoReadable
    /\ call.options = <<TRUE, TRUE>>
    /\ ~ret.raised
    /\ ReportsRecentUpdate
    /\ Len(ret.value.issues) >= 2
    /\ reads = Range(call.files)

\* The word-set of a text: case-folded, split at blanks.
WordSet(text) == Range(split(lower(text)))

\* C9 as the claim words it: the trimmed, lower-cased instruction occurs in the
\* trimmed, lower-cased content, or some line's word-set holds at least 80% of
\* the instruction's word-set.
ClaimedPresent(content, instruction) ==
    \/ contains(strip(lower(content)), strip(lower(instruction)))
    \/ \E k \in DOMAIN split_lines(content) :
          100 * Cardinality({w \in WordSet(instruction) :
                                w \in WordSet(split_lines(content)[k])})
             >= 80 * Cardinality(WordSet(instruction))

\* C9: the duplicate check an update made on a file (it skipped the file, or
\* did not) is true exactly when the instruction is a substring of the content
\* or 80% a line's words.
C9_DuplicateCheckCriterion ==
    UpdateReturned
    => \A f \in DOMAIN ret.value :
          (~ret.value[f].was_updated)
             <=> ClaimedPresent(ret.value[f].old_content, call.instruction)

\* C9 witness: a file skipped on line overlap alone (the instruction is no
\* substring of it), beside a file that was not skipped.
C9_Witness ==
    /\ UpdateReturned
    /\ \E f \in DOMAIN ret.value :
          /\ ~ret.value[f].was_updated
          /\ ~contains(strip(lower(ret.value[f].old_content)),
                       strip(lower(call.instruction)))
    /\ \E f \in DOMAIN ret.value : ret.value[f].was_updated

RECURSIVE HeaderScores(_, _)
\* The scores of second-level headers, in file order.
HeaderScores(headers, instruction) ==
    IF headers = << >> THEN << >>
    ELSE <<SectionScore(headers[1], instruction)>>
         \o HeaderScores(Tail(headers), instruction)

\* C10 for one content: nothing is selected when every header scores zero;
\* otherwise the selected header is the first header line of the content that
\* has the highest score, and that score is not zero.
BestSectionAsClaimed(content, instruction) ==
    \A headers \in {existing_sections(split_lines(content))} :
    \A score \in {HeaderScores(headers, instruction)} :
    \A selected \in {_find_best_section(content, instruction)} :
        IF \A k \in DOMAIN headers : score[k] = 0
        THEN selected = None
        ELSE /\ selected # None
             /\ \E k \in DOMAIN headers :
                   /\ selected[1] = headers[k]
                   /\ score[k] > 0
                   /\ \A j \in DOMAIN headers : score[j] <= score[k]
                   /\ \A j \in 1..(k - 1) : score[j] < score[k]
             /\ \E k \in DOMAIN split_lines(content) :
                   strip(split_lines(content)[k]) = selected[1]

\* C10: the section an update selects in each file it reads is the first of
\* the highest-scoring second-level headers of the file, or none when all
\* score zero.
C10_BestSection ==
    call.op = "update"
    => \A instruction \in {Contextualized} :
          \A f \in reads : BestSectionAsClaimed(pre[f], instruction)

\* C10 witness: an update chose among several headers, two of which tied for
\* the highest score.
C10_Witness ==
    /\ UpdateReturned
    /\ \E f \in DOMAIN ret.value :
          /\ ret.value[f].was_updated
          /\ \E score \in {HeaderScores(existing_sections(split_lines(pre[f])),
                                        Contextualized)} :
             \E j, k \in DOMAIN score :
                /\ j < k
                /\ score[j] > 0
                /\ score[j] = score[k]
                /\ \A m \in DOMAIN score : score[m] <= score[j]

(***************************************************************************)
(* _contextualize_instruction on its own                                   *)
(***************************************************************************)

\* The instructions a user gives, with and without "test" in them.
ContextInstructions == {
    "Use type hints",
    "Run tests before committing",
    "Run Tests first",
    "TEST everything",
    "Attest the build",
    "Be kind" }

\* The `languages` analyze_project_context can detect.
LanguageLists == {
    << >>,
    <<"Python">>,
    <<"JavaScript", "Python">>,
    <<"Go", "Python", "Rust">> }

\* The `test_framework` analyze_project_context can detect.
TestFrameworks == {None, Some("pytest"), Some("jest")}

\* Nothing is on disk: the function reads no file.
InitContextualize ==
    /\ disk = EmptyDict
    /\ fault = EmptyDict
    /\ mtime = EmptyDict
    /\ pre = EmptyDict
    /\ reads = {}
    /\ \E instruction \in ContextInstructions, languages \in LanguageLists,
          test_framework \in TestFrameworks :
          call = [op |-> "args", instruction |-> instruction,
                  context |-> [languages |-> languages,
                               test_framework |-> test_framework]]
    /\ ret = [raised |-> FALSE, value |-> None]

\* _contextualize_instruction is called on the arguments.
Contextualize ==
    /\ call.op = "args"
    /\ call' = [call EXCEPT !.op = "_contextualize_instruction"]
    /\ ret' = [raised |-> FALSE,
               value |-> _contextualize_instruction(call.instruction, call.context)]
    /\ UNCHANGED <<disk, fault, mtime, pre, reads>>

NextContextualize == Contextualize

SpecContextualize == InitContextualize /\ [][NextContextualize]_vars

\* The language annotation of C11.
LanguageAnnotation(languages) ==
    CASE Len(languages) = 0 -> ""
      [] Len(languages) = 1 -> " (this is a " \o languages[1] \o " project)"
      [] OTHER -> " (languages: " \o join(", ", languages) \o ")"

\* The test-framework annotation of C11.
TestAnnotation(instruction, test_framework) ==
    IF contains(lower(instruction), "test") /\ test_framework # None
    THEN " using " \o test_framework[1]
    ELSE ""

\* C11: the contextualized text is the instruction, then the language
\* annotation (one language: "(this is a <language> project)", several:
\* "(languages: <comma-joined list>)", none: nothing), then " using
\* <test_framework>" when the instruction holds "test" in any case and a test
\* framework was detected.
C11_Contextualization ==
    call.op = "_contextualize_instruction"
    => ret.value = call.instruction
                    \o LanguageAnnotation(call.context.languages)
                    \o TestAnnotation(call.instruction, call.context.test_framework)

\* C11 witness: both annotations stacked, on an instruction that spells
\* "Tests" with a capital, in a project of several languages.
C11_Witness ==
    /\ call.op = "_contextualize_instruction"
    /\ call.instruction = "Run Tests first"
    /\ Len(call.context.languages) > 1
    /\ call.context.test_framework = Some("jest")
    /\ ret.value = "Run Tests first (languages: JavaScript, Python) using jest"

(***************************************************************************)
(* discovery.py: discover_instruction_files and is_instruction_file        *)
(***************************************************************************)

\* str.endswith
endswith(s, suffix) ==
    Len(suffix) <= Len(s) /\ SubSeq(s, Len(s) - Len(suffix) + 1, Len(s)) = suffix

\* INSTRUCTION_FILE_PATTERNS
INSTRUCTION_FILE_PATTERNS ==
    <<"AGENTS.md", "CLAUDE.md", ".clinerules", ".cursorrules",
      ".github/copilot-instructions.md">>

\* The paths of a project tree, relative to project_path: the recognized
\* ones, the .github directory, and files that discovery has to pass over.
TreePaths ==
    Range(INSTRUCTION_FILE_PATTERNS) \cup {".github", "docs/AGENTS.md", "README.md"}

\* What a path of a tree is.
EntryKinds == {"absent", "file", "dir"}

\* The project trees: what is below .github is there only when .github is a
\* directory.
Trees ==
    {t \in [TreePaths -> EntryKinds] :
        /\ t[".github/copilot-instructions.md"] # "absent" => t[".github"] = "dir"
        /\ \A p \in {".clinerules", "docs/AGENTS.md", "README.md"} : t[p] # "dir"}

\* Path.exists()
path_exists(tree, file_path) == file_path \in DOMAIN tree /\ tree[file_path] # "absent"

\* Path.is_file()
is_file(tree, file_path) == file_path \in DOMAIN tree /\ tree[file_path] = "file"

\* A discovery that takes whatever exists under a recognized path.
IsDiscovered_Existing(tree, file_path) == path_exists(tree, file_path)

\* `if file_path.exists() and file_path.is_file():`
IsDiscovered(tree, file_path) == path_exists(tree, file_path) /\ is_file(tree, file_path)

RECURSIVE DiscoverLoop(_, _)
\* `for pattern in INSTRUCTION_FILE_PATTERNS:` file_path = project_path / pattern
\* is written as the pattern, the path relative to project_path.
DiscoverLoop(tree, patterns) ==
    IF patterns = << >> THEN << >>
    ELSE (IF IsDiscovered(tree, patterns[1]) THEN <<patterns[1]>> ELSE << >>)
         \o DiscoverLoop(tree, Tail(patterns))

\* discover_instruction_files(project_path), the project being `tree`.
discover_instruction_files(tree) == DiscoverLoop(tree, INSTRUCTION_FILE_PATTERNS)

\* is_instruction_file(file_path)
is_instruction_file(file_path) ==
    \E k \in DOMAIN INSTRUCTION_FILE_PATTERNS :
        \/ name(file_path) = name(INSTRUCTION_FILE_PATTERNS[k])
        \/ endswith(file_path, INSTRUCTION_FILE_PATTERNS[k])

\* The paths is_instruction_file is asked about.
CandidatePaths == {
    "AGENTS.md", "CLAUDE.md", ".clinerules", ".cursorrules",
    ".github/copilot-instructions.md", "docs/AGENTS.md", "README.md", "random.txt",
    "agents.md", "AGENTS.md.bak", "myAGENTS.md", "notes.cursorrules",
    "docs/copilot-instructions.md" }

\* A project tree; `disk` holds what each path is.
InitDiscovery ==
    /\ disk \in Trees
    /\ fault = EmptyDict
    /\ mtime = EmptyDict
    /\ pre = disk
    /\ reads = {}
    /\ call = [op |-> "none"]
    /\ ret = [raised |-> FALSE, value |-> None]

\* A shell discovers the instruction files of the project.
Discover ==
    /\ call.op = "none"
    /\ call' = [op |-> "discover_instruction_files"]
    /\ ret' = [raised |-> FALSE, value |-> discover_instruction_files(disk)]
    /\ UNCHANGED <<disk, fault, mtime, pre, reads>>

\* is_instruction_file is asked about a path.
IsInstructionFile ==
    /\ call.op = "none"
    /\ \E file_path \in CandidatePaths :
          /\ call' = [op |-> "is_instruction_file", file_path |-> file_path]
          /\ ret' = [raised |-> FALSE, value |-> is_instruction_file(file_path)]
    /\ UNCHANGED <<disk, fault, mtime, pre, reads>>

NextDiscovery == Discover \/ IsInstructionFile

SpecDiscovery == InitDiscovery /\ [][NextDiscovery]_vars

\* C12: discovery returns exactly the recognized paths that are regular files
\* of the project, each once: no directory of a recognized name, no file of
\* a recognized name elsewhere in the tree, no other file.
C12_DiscoverRegularFiles ==
    call.op = "discover_instruction_files"
    => /\ Range(ret.value)
            = {p \in Range(INSTRUCTION_FILE_PATTERNS) : disk[p] = "file"}
       /\ \A j, k \in DOMAIN ret.value : ret.value[j] = ret.value[k] => j = k
       /\ \A p \in Range(ret.value) : p \notin {"docs/AGENTS.md", "README.md", ".github"}

\* C12 witness: a tree where AGENTS.md is a directory and docs/AGENTS.md and
\* README.md are files; CLAUDE.md and the Copilot file are discovered.
C12_Witness ==
    /\ call.op = "discover_instruction_files"
    /\ disk["AGENTS.md"] = "dir"
    /\ disk["docs/AGENTS.md"] = "file"
    /\ disk["README.md"] = "file"
    /\ ret.value = <<"CLAUDE.md", ".github/copilot-instructions.md">>

\* The file names of the recognized patterns.
RecognizedNames == {name(p) : p \in Range(INSTRUCTION_FILE_PATTERNS)}

\* C13: is_instruction_file is true of a path exactly when its file name is a
\* recognized name or it is the nested Copilot path; it is false of
\* README.md, of random.txt and of a file whose name only ends with a
\* recognized name.
C13_RecognizedNamesOnly ==
    call.op = "is_instruction_file"
    => (ret.value <=> \/ name(call.file_path) \in RecognizedNames
                      \/ call.file_path = ".github/copilot-instructions.md")

(***************************************************************************)
(* context.py: analyze_project_context                                     *)
(*                                                                         *)
(* A project is a record [tree, manifest, text]: tree says what each       *)
(* top-level path is ("absent", "file" or "dir"; directories are empty),   *)
(* manifest is what package.json holds and text what the .py files hold.   *)
(***************************************************************************)

\* _has_file(project_path, filename): `(project_path / filename).exists()`
_has_file(project, filename) ==
    filename \in DOMAIN project.tree /\ project.tree[filename] # "absent"

\* _has_directory(project_path, dirname): `(project_path / dirname).is_dir()`
_has_directory(project, dirname) ==
    dirname \in DOMAIN project.tree /\ project.tree[dirname] = "dir"

\* A JSON object with the given members (a function from keys to JSON values).
JsonObject(members) == [type |-> "object", members |-> members]

\* A JSON value that is no object: an array, a string, a number or null.
JsonOther(type) == [type |-> type]

\* `with open(package_json) as f: data = json.load(f)`: the parsed value, or
\* the exception raised. Opening a directory or a file without permission
\* raises OSError, bytes that are not UTF-8 raise UnicodeDecodeError, text that
\* is not JSON raises JSONDecodeError.
json_load(project) ==
    CASE project.tree["package.json"] = "dir" -> [raises |-> "OSError"]
      [] project.manifest.form = "unreadable" -> [raises |-> "OSError"]
      [] project.manifest.form = "undecodable" -> [raises |-> "UnicodeDecodeError"]
      [] project.manifest.form = "invalid" -> [raises |-> "JSONDecodeError"]
      [] OTHER -> [raises |-> "", data |-> project.manifest.data]

\* data.get(key, {}): only a dict has get.
dict_get(data, key) ==
    IF data.type # "object" THEN [raises |-> "AttributeError"]
    ELSE IF key \in DOMAIN data.members
    THEN [raises |-> "", value |-> data.members[key]]
    ELSE [raises |-> "", value |-> JsonObject(EmptyDict)]

\* `deps = {**data.get("dependencies", {}), **data.get("devDependencies", {})}`:
\* the keys of deps, or the exception raised; ** takes mappings only.
merged_deps(data) ==
    LET dependencies == dict_get(data, "dependencies")
        devDependencies == dict_get(data, "devDependencies")
    IN  IF dependencies.raises # "" THEN [raises |-> dependencies.raises]
        ELSE IF dependencies.value.type # "object" \/ devDependencies.value.type # "object"
        THEN [raises |-> "TypeError"]
        ELSE [raises |-> "",
              deps |-> (DOMAIN dependencies.value.members)
                       \cup (DOMAIN devDependencies.value.members)]

\* The body of the `try:` that reads package.json: deps, or the exception.
read_deps(project) ==
    LET loaded == json_load(project)
    IN  IF loaded.raises # "" THEN [raises |-> loaded.raises]
        ELSE merged_deps(loaded.data)

\* `except (json.JSONDecodeError, OSError): pass`
IsSwallowed(raises) == raises \in {"JSONDecodeError", "OSError"}

\* The `if "<dep>" in deps: frameworks.append(...)` lines of
\* _detect_js_frameworks, in order.
js_framework_table == <<
    [dep |-> "react", framework |-> "React"],
    [dep |-> "next", framework |-> "Next.js"],
    [dep |-> "vue", framework |-> "Vue"],
    [dep |-> "svelte", framework |-> "Svelte"],
    [dep |-> "express", framework |-> "Express"],
    [dep |-> "@nestjs/core", framework |-> "NestJS"] >>

RECURSIVE JsFrameworksFrom(_, _)
\* The frameworks appended from the k-th table line on.
JsFrameworksFrom(k, deps) ==
    IF k > Len(js_framework_table) THEN << >>
    ELSE (IF js_framework_table[k].dep \in deps
          THEN <<js_framework_table[k].framework>> ELSE << >>)
         \o JsFrameworksFrom(k + 1, deps)

\* _detect_js_frameworks(project_path): the list, or the exception that
\* escapes it.
_detect_js_frameworks(project) ==
    IF ~_has_file(project, "package.json") THEN [raises |-> "", frameworks |-> << >>]
    ELSE LET r == read_deps(project)
         IN  IF r.raises = "" THEN [raises |-> "", frameworks |-> JsFrameworksFrom(1, r.deps)]
             ELSE IF IsSwallowed(r.raises) THEN [raises |-> "", frameworks |-> << >>]
             ELSE [raises |-> r.raises]

\* _has_import_in_python_files(project_path, module_name): some .py file
\* that can be read holds "import <module>" or "from <module>". The projects
\* have fewer .py files than max_files.
_has_import_in_python_files(project, module_name) ==
    \E py_file \in DOMAIN project.text :
        /\ project.tree[py_file] = "file"
        /\ \/ contains(project.text[py_file], "import " \o module_name)
           \/ contains(project.text[py_file], "from " \o module_name)

\* _detect_python_frameworks(project_path)
_detect_python_frameworks(project) ==
    (IF _has_file(project, "manage.py") THEN <<"Django">> ELSE << >>)
    \o (IF _has_directory(project, "app") \/ _has_file(project, "app.py")
        THEN IF _has_import_in_python_files(project, "fastapi") THEN <<"FastAPI">>
             ELSE IF _has_import_in_python_files(project, "flask") THEN <<"Flask">>
             ELSE << >>
        ELSE << >>)

\* The extension_map of _detect_languages.
extension_map ==
    ".py" :> "Python" @@ ".js" :> "JavaScript" @@ ".ts" :> "TypeScript"
    @@ ".jsx" :> "JavaScript" @@ ".tsx" :> "TypeScript" @@ ".rs" :> "Rust"
    @@ ".go" :> "Go" @@ ".java" :> "Java" @@ ".rb" :> "Ruby" @@ ".php" :> "PHP"
    @@ ".swift" :> "Swift" @@ ".kt" :> "Kotlin" @@ ".c" :> "C" @@ ".cpp" :> "C++"
    @@ ".cs" :> "C#"

\* Path.suffix: the file name from its last dot on, when that dot is neither
\* its first nor its last character.
suffix(file_name) ==
    LET dots == {i \in 2..(Len(file_name) - 1) : Char(file_name, i) = "."}
    IN  IF dots = {} THEN ""
        ELSE SubSeq(file_name, CHOOSE i \in dots : \A j \in dots : j <= i, Len(file_name))

\* The names _walk_files passes over.
ignored_names ==
    {"node_modules", "__pycache__", "venv", "env", ".venv", "target", "build", "dist"}

\* _walk_files(project_path): the files of the tree that are not skipped. The
\* directories of a project are empty, so nothing is found below them.
_walk_files(project) ==
    {item \in DOMAIN project.tree :
        /\ project.tree[item] = "file"
        /\ ~(startswith(name(item), ".") /\ name(item) # ".github")
        /\ name(item) \notin ignored_names}

\* _detect_languages(project_path)
_detect_languages(project) ==
    {extension_map[lower(suffix(name(path)))] :
        path \in {p \in _walk_files(project) :
                     lower(suffix(name(p))) \in DOMAIN extension_map}}

\* The test framework a Python project is given: pytest.ini or a tests
\* directory, else a test directory, else what was there.
PythonTestFramework(project, test_framework) ==
    IF _has_file(project, "pytest.ini") \/ _has_directory(project, "tests")
    THEN Some("pytest")
    ELSE IF _has_directory(project, "test") THEN Some("unittest")
    ELSE test_framework

\* A Node step that forgets the test framework found before it.
NodeTestFramework_Resetting(deps, test_framework) ==
    IF "jest" \in deps THEN Some("jest")
    ELSE IF "vitest" \in deps THEN Some("vitest")
    ELSE IF "mocha" \in deps THEN Some("mocha")
    ELSE None

\* A Node step that looks for mocha first.
NodeTestFramework_MochaFirst(deps, test_framework) ==
    IF "mocha" \in deps THEN Some("mocha")
    ELSE IF "jest" \in deps THEN Some("jest")
    ELSE IF "vitest" \in deps THEN Some("vitest")
    ELSE test_framework

\* `if "jest" in deps: ... elif "vitest" in deps: ... elif "mocha" in deps: ...`
NodeTestFramework(deps, test_framework) ==
    IF "jest" \in deps THEN Some("jest")
    ELSE IF "vitest" \in deps THEN Some("vitest")
    ELSE IF "mocha" \in deps THEN Some("mocha")
    ELSE test_framework

\* analyze_project_context(project_path), list(languages) being `languages`:
\* the context, or the exception that escapes.
analyze_project_context(project, languages) ==
    LET c0 == [languages |-> languages, frameworks |-> << >>, test_framework |-> None,
               package_manager |-> None, project_type |-> None]
        c1 == IF _has_file(project, "requirements.txt") \/ _has_file(project, "pyproject.toml")
              THEN [c0 EXCEPT !.package_manager = Some("pip"),
                              !.frameworks = @ \o _detect_python_frameworks(project),
                              !.test_framework = PythonTestFramework(project, @)]
              ELSE c0
        js == _detect_js_frameworks(project)
        r == read_deps(project)
        c2 == IF _has_file(project, "package.json")
              THEN [c1 EXCEPT !.package_manager = Some("npm"),
                              !.frameworks = @ \o js.frameworks,
                              !.test_framework = IF r.raises = ""
                                                 THEN NodeTestFramework(r.deps, @)
                                                 ELSE @]
              ELSE c1
        c3 == IF _has_file(project, "Cargo.toml")
              THEN [c2 EXCEPT !.package_manager = Some("cargo"),
                              !.test_framework = Some("cargo test")]
              ELSE c2
        c4 == IF _has_file(project, "go.mod")
              THEN [c3 EXCEPT !.package_manager = Some("go"),
                              !.test_framework = Some("go test")]
              ELSE c3
    IN  IF _has_file(project, "package.json") /\ js.raises # ""
        THEN [raised |-> TRUE, exception |-> js.raises]
        ELSE IF _has_file(project, "package.json") /\ ~IsSwallowed(r.raises) /\ r.raises # ""
        THEN [raised |-> TRUE, exception |-> r.raises]
        ELSE [raised |-> FALSE, value |-> c4]

\* The version string of a dependency.
Version == JsonOther("string")

\* What package.json can hold: well-formed manifests, and the malformed ones.
ManifestFiles == {
    [form |-> "json", data |-> JsonObject(EmptyDict)],
    [form |-> "json", data |-> JsonObject(
        "dependencies" :> JsonObject("react" :> Version @@ "jest" :> Version))],
    [form |-> "json", data |-> JsonObject(
        "devDependencies" :> JsonObject("vitest" :> Version @@ "mocha" :> Version))],
    [form |-> "json", data |-> JsonObject(
        "dependencies" :> JsonObject("express" :> Version @@ "next" :> Version)
        @@ "devDependencies" :> JsonObject("mocha" :> Version))],
    [form |-> "json", data |-> JsonObject(
        "dependencies" :> JsonObject("vue" :> Version))],
    [form |-> "json", data |-> JsonOther("array")],
    [form |-> "json", data |-> JsonObject("dependencies" :> JsonOther("array"))],
    [form |-> "json", data |-> JsonObject(
        "dependencies" :> JsonObject("jest" :> Version)
        @@ "devDependencies" :> JsonOther("null"))],
    [form |-> "invalid"],
    [form |-> "undecodable"],
    [form |-> "unreadable"] }

\* What app.py can hold.
AppTexts == {"print(1)\n", "import flask\n", "import flask\nfrom fastapi import FastAPI\n"}

\* The choices that make a project.
ProjectShapes ==
    [python : {"none", "requirements.txt", "pyproject.toml"},
     pytest_ini : BOOLEAN,
     tests : {"absent", "dir", "file"},
     test : {"absent", "dir"},
     package_json : {[form |-> "absent"], [form |-> "dir"]} \cup ManifestFiles,
     cargo : BOOLEAN,
     go : BOOLEAN,
     manage : BOOLEAN,
     app : {None} \cup {Some(t) : t \in AppTexts}]

\* "file" or "absent"
FileIf(present) == IF present THEN "file" ELSE "absent"

\* The project of a shape.
MakeProject(shape) ==
    [tree |->
        "requirements.txt" :> FileIf(shape.python = "requirements.txt")
        @@ "pyproject.toml" :> FileIf(shape.python = "pyproject.toml")
        @@ "pytest.ini" :> FileIf(shape.pytest_ini)
        @@ "tests" :> shape.tests
        @@ "test" :> shape.test
        @@ "package.json" :> (IF shape.package_json.form \in {"absent", "dir"}
                              THEN shape.package_json.form ELSE "file")
        @@ "Cargo.toml" :> FileIf(shape.cargo)
        @@ "go.mod" :> FileIf(shape.go)
        @@ "manage.py" :> FileIf(shape.manage)
        @@ "app.py" :> FileIf(shape.app # None),
     manifest |-> shape.package_json,
     text |-> "manage.py" :> "" @@ "app.py" :> (IF shape.app = None THEN "" ELSE shape.app[1])]

\* A project before it is analyzed; `disk` holds the project.
InitContext ==
    /\ disk \in {MakeProject(shape) : shape \in ProjectShapes}
    /\ fault = EmptyDict
    /\ mtime = EmptyDict
    /\ pre = disk
    /\ reads = {}
    /\ call = [op |-> "none"]
    /\ ret = [raised |-> FALSE, value |-> None]

\* A shell analyzes the project.
AnalyzeContext ==
    /\ call.op = "none"
    /\ \E languages \in IterationOrders(_detect_languages(disk)) :
       \E r \in {analyze_project_context(disk, languages)} :
          /\ call' = [op |-> "analyze_project_context"]
          /\ ret' = IF r.raised THEN [raised |-> TRUE, value |-> None,
                                      exception |-> r.exception]
                    ELSE [raised |-> FALSE, value |-> r.value]
    /\ UNCHANGED <<disk, fault, mtime, pre, reads>>

NextContext == AnalyzeContext

SpecContext == InitContext /\ [][NextContext]_vars

\* The project was analyzed and a context returned.
ContextReturned == call.op = "analyze_project_context" /\ ~ret.raised

\* The ecosystems, in the order analyze_project_context checks them.
EcosystemOrder == <<"Python", "Node", "Rust", "Go">>

\* The marker of an ecosystem is in the project.
HasMarker(ecosystem) ==
    CASE ecosystem = "Python" -> \/ disk.tree["requirements.txt"] # "absent"
                                 \/ disk.tree["pyproject.toml"] # "absent"
      [] ecosystem = "Node" -> disk.tree["package.json"] # "absent"
      [] ecosystem = "Rust" -> disk.tree["Cargo.toml"] # "absent"
      [] ecosystem = "Go" -> disk.tree["go.mod"] # "absent"

\* The positions, in the check order, of the ecosystems of the project.
Matched == {k \in DOMAIN EcosystemOrder : HasMarker(EcosystemOrder[k])}

\* The package manager of an ecosystem.
ManagerOf(ecosystem) ==
    CASE ecosystem = "Python" -> "pip"
      [] ecosystem = "Node" -> "npm"
      [] ecosystem = "Rust" -> "cargo"
      [] ecosystem = "Go" -> "go"

\* The package.json of the project parses to an object whose dependency
\* maps, where given, are objects.
ManifestWellFormed ==
    /\ disk.tree["package.json"] = "file"
    /\ disk.manifest.form = "json"
    /\ disk.manifest.data.type = "object"
    /\ \A k \in {"dependencies", "devDependencies"} \cap DOMAIN disk.manifest.data.members :
          disk.manifest.data.members[k].type = "object"

\* The names in the dependency maps of a well-formed manifest.
DeclaredDependencies ==
    UNION {DOMAIN disk.manifest.data.members[k].members :
              k \in {"dependencies", "devDependencies"} \cap DOMAIN disk.manifest.data.members}

\* The test framework of one ecosystem taken alone, as C16 gives it; None when
\* the ecosystem gives none.
OwnTestFramework(ecosystem) ==
    CASE ecosystem = "Python" ->
            IF disk.tree["pytest.ini"] = "file" \/ disk.tree["tests"] = "dir"
            THEN Some("pytest")
            ELSE IF disk.tree["test"] = "dir" THEN Some("unittest") ELSE None
      [] ecosystem = "Node" ->
            IF ~ManifestWellFormed THEN None
            ELSE IF "jest" \in DeclaredDependencies THEN Some("jest")
            ELSE IF "vitest" \in DeclaredDependencies THEN Some("vitest")
            ELSE IF "mocha" \in DeclaredDependencies THEN Some("mocha")
            ELSE None
      [] ecosystem = "Rust" -> Some("cargo test")
      [] ecosystem = "Go" -> Some("go test")

\* The greatest element of a non-empty set of numbers.
Greatest(S) == CHOOSE k \in S : \A j \in S : j <= k

\* C14 as stated: in a project with the markers of several ecosystems, the
\* package manager and the test framework are both those of the ecosystem
\* matched last, never a mix of two.
C14_LastEcosystemOnly ==
    ContextReturned /\ Cardinality(Matched) > 1
    => /\ ret.value.package_manager = Some(ManagerOf(EcosystemOrder[Greatest(Matched)]))
       /\ ret.value.test_framework = OwnTestFramework(EcosystemOrder[Greatest(Matched)])

\* The matched ecosystems that give a test framework.
GivingTestFramework == {k \in Matched : OwnTestFramework(EcosystemOrder[k]) # None}

\* C14, amended: the package manager is that of the ecosystem matched last;
\* the test framework is that of the last matched ecosystem that gives one
\* (a Node manifest that names no test library, or a Python project without
\* test directory, gives none and leaves the earlier value), so the two can
\* come from different ecosystems.
C14_LastSettingWins ==
    ContextReturned /\ Cardinality(Matched) > 1
    => /\ ret.value.package_manager = Some(ManagerOf(EcosystemOrder[Greatest(Matched)]))
       /\ ret.value.test_framework =
             IF GivingTestFramework = {} THEN None
             ELSE OwnTestFramework(EcosystemOrder[Greatest(GivingTestFramework)])

\* C14 witness: a Python and Node project whose manifest names no test
\* library is reported with npm and pytest.
C14_Witness ==
    /\ ContextReturned
    /\ Matched = {1, 2}
    /\ ManifestWellFormed
    /\ ret.value.package_manager = Some("npm")
    /\ ret.value.test_framework = Some("pytest")

\* The frameworks and test frameworks a Node manifest can contribute.
NodeContributions ==
    {js_framework_table[k].framework : k \in DOMAIN js_framework_table}
    \cup {"jest", "vitest", "mocha"}

\* C15: whatever package.json holds (invalid syntax, JSON that is no object,
\* dependency maps of the wrong type, undecodable bytes), the analysis returns
\* a context, and a malformed manifest contributes no framework and no test
\* framework.
C15_ManifestNeverRaises ==
    call.op = "analyze_project_context"
    => /\ ~ret.raised
       /\ ~ManifestWellFormed
          => /\ Range(ret.value.frameworks) \cap NodeContributions = {}
             /\ \A t \in Range(ret.value.test_framework) : t \notin NodeContributions

\* C16: a project of one ecosystem has that ecosystem's test framework:
\* Python pytest with a pytest.ini or a tests directory, else unittest with a
\* test directory; Node the first of jest, vitest, mocha its manifest names;
\* Rust "cargo test"; Go "go test". A project without marker has no package
\* manager, no test framework and no frameworks.
C16_TestFrameworkPrecedence ==
    ContextReturned
    => /\ Matched = {}
          => /\ ret.value.package_manager = None
             /\ ret.value.test_framework = None
             /\ ret.value.frameworks = << >>
       /\ \A k \in Matched :
             Matched = {k} => ret.value.test_framework = OwnTestFramework(EcosystemOrder[k])

\* C16 witness: a Node project whose manifest names vitest and mocha has
\* vitest.
C16_Witness ==
    /\ ContextReturned
    /\ Matched = {2}
    /\ ManifestWellFormed
    /\ {"vitest", "mocha"} \subseteq DeclaredDependencies
    /\ ret.value.test_framework = Some("vitest")

(***************************************************************************)
(* The shells: the protocol server's call_tool with its handlers, and the  *)
(* `update` command of the command line.                                   *)
(***************************************************************************)

\* The directory of the project, a regular file, and a path where nothing is.
ProjectDir == "/project"

RegularFile == "/project/README.md"

NoSuchPath == "/gone"

\* Path(project_path_str).resolve().exists()
resolved_exists(project_path_str) == project_path_str \in {ProjectDir, RegularFile}

\* Path(project_path_str).resolve().is_dir()
resolved_is_dir(project_path_str) == project_path_str = ProjectDir

\* A check of the project path that accepts whatever exists.
ProjectPathError_ExistsOnly(project_path) ==
    IF project_path = None \/ project_path = Some("")
    THEN Some("project_path is required")
    ELSE IF ~resolved_exists(project_path[1])
    THEN Some("Project path does not exist: " \o project_path[1])
    ELSE None

\* The checks call_tool makes on arguments.get("project_path") before it
\* routes: the error it returns, or None when the path passes.
ProjectPathError(project_path) ==
    IF project_path = None \/ project_path = Some("")
    THEN Some("project_path is required")
    ELSE IF ~resolved_exists(project_path[1])
    THEN Some("Project path does not exist: " \o project_path[1])
    ELSE IF ~resolved_is_dir(project_path[1])
    THEN Some("Project path is not a directory: " \o project_path[1])
    ELSE None

\* What lies under project_path: the instruction files of the project
\* directory; nothing lies under a regular file or a path that is not there.
TreeUnder(project_path) ==
    IF project_path = ProjectDir
    THEN [f \in FileSet |-> IF exists(f) THEN "file" ELSE "absent"]
    ELSE EmptyDict

\* What a handler leaves: the filesystem, the files whose content it read, the
\* status of its reply, the handler that ran, the preview flags of the calls of
\* update_instruction_files it made, and the number of files the preview pass
\* found to update.
Reply(st, status) == [st EXCEPT !.status = status]

\* The state a tool invocation starts from.
Invocation ==
    [disk |-> disk, mtime |-> mtime, reads |-> {}, status |-> "", handler |-> None,
     passes |-> << >>, found |-> 0]

RECURSIVE ReadLoop(_, _)
\* `for file_path in files: content = file_path.read_text()` of _handle_read:
\* any exception ends the handler with status ERROR.
ReadLoop(st, files) ==
    IF files = << >> THEN Reply(st, "SUCCESS")
    ELSE IF read_text(st.disk, files[1]).raises # ""
    THEN Reply([st EXCEPT !.reads = @ \cup {files[1]}], "ERROR")
    ELSE ReadLoop([st EXCEPT !.reads = @ \cup {files[1]}], Tail(files))

\* _handle_read(project_path)
_handle_read(st, project_path) ==
    IF discover_instruction_files(TreeUnder(project_path)) = << >>
    THEN Reply(st, "NO_FILES")
    ELSE ReadLoop(st, discover_instruction_files(TreeUnder(project_path)))

\* `files_to_update`: the files the preview pass reports as updated.
files_to_update(updates) == {f \in DOMAIN updates : updates[f].was_updated}

\* The applying pass has run: `second` is what update_instruction_files left
\* and returned with preview=False.
AfterApplying(st, second, statuses) ==
    Reply([st EXCEPT !.disk = second.disk, !.mtime = second.mtime,
                     !.reads = @ \cup second.reads, !.passes = <<TRUE, FALSE>>],
          IF second.raised THEN statuses.failed ELSE statuses.applied)

\* The preview pass has run: `first` is what update_instruction_files left and
\* returned with preview=True. Nothing to update ends the command; otherwise
\* the applying pass runs when `apply` holds.
AfterPreview(st, first, files, instruction, context, apply, statuses) ==
    IF first.raised
    THEN Reply([st EXCEPT !.disk = first.disk, !.mtime = first.mtime,
                          !.reads = first.reads, !.passes = <<TRUE>>],
               statuses.failed)
    ELSE IF files_to_update(first.updates) = {}
    THEN Reply([st EXCEPT !.disk = first.disk, !.mtime = first.mtime,
                          !.reads = first.reads, !.passes = <<TRUE>>],
               statuses.unchanged)
    ELSE IF ~apply
    THEN Reply([st EXCEPT !.disk = first.disk, !.mtime = first.mtime,
                          !.reads = first.reads, !.passes = <<TRUE>>,
                          !.found = Cardinality(files_to_update(first.updates))],
               statuses.previewed)
    ELSE AfterApplying([st EXCEPT !.disk = first.disk, !.mtime = first.mtime,
                                  !.reads = first.reads, !.passes = <<TRUE>>,
                                  !.found = Cardinality(files_to_update(first.updates))],
                       update_instruction_files(files, instruction, context, FALSE),
                       statuses)

\* The two passes of an update, shared by _handle_update and the update
\* command: the preview pass, and, when `apply` holds, the applying pass.
\* `unchanged`, `previewed`, `applied` and `failed` are the statuses the shell
\* gives to the four ways the passes end.
UpdatePasses(st, files, instruction, context, apply, statuses) ==
    AfterPreview(st, update_instruction_files(files, instruction, context, TRUE),
                 files, instruction, context, apply, statuses)

\* The statuses of the replies of _handle_update.
UpdateStatuses ==
    [unchanged |-> "NO_CHANGES", previewed |-> "PREVIEW", applied |-> "SUCCESS",
     failed |-> "ERROR"]

\* _handle_update after discovery, `files` being the files discovered.
UpdateDiscovered(st, files, instruction, preview, analysis) ==
    IF files = << >> THEN Reply(st, "NO_FILES")
    ELSE IF analysis.raised THEN Reply(st, "ERROR")
    ELSE UpdatePasses(st, files, instruction, analysis.value, ~preview, UpdateStatuses)

\* _handle_update(project_path, instruction, preview, rationale), the outcome
\* of analyze_project_context being `analysis` (a context, or an exception).
_handle_update(st, project_path, instruction, preview, analysis) ==
    UpdateDiscovered(st, discover_instruction_files(TreeUnder(project_path)),
                     instruction, preview, analysis)

\* The reply of _handle_validate, r being what validate_instructions left and
\* returned.
ValidateReply(st, r) ==
    Reply([st EXCEPT !.disk = r.disk, !.reads = r.reads],
          IF r.raised THEN "ERROR"
          ELSE IF r.value.all_valid THEN "VALID" ELSE "INVALID")

\* _handle_validate after discovery: validate_instructions(files, project_path)
\* runs with its default options.
ValidateDiscovered(st, files, topic_order) ==
    IF files = << >> THEN Reply(st, "NO_FILES")
    ELSE ValidateReply(st, validate_instructions(files, DefaultCheckLatest,
                                                 DefaultCheckAll, topic_order))

\* _handle_validate(project_path)
_handle_validate(st, project_path, topic_order) ==
    ValidateDiscovered(st, discover_instruction_files(TreeUnder(project_path)),
                       topic_order)

\* _handle_list(project_path): the files are listed with their sizes
\* (file_path.stat()), their content is not read.
_handle_list(st, project_path) ==
    IF discover_instruction_files(TreeUnder(project_path)) = << >>
    THEN Reply(st, "NO_FILES") ELSE Reply(st, "SUCCESS")

\* _handle_context(project_path)
_handle_context(st, project_path, analysis) ==
    IF analysis.raised THEN Reply(st, "ERROR") ELSE Reply(st, "SUCCESS")

\* An applying pass that runs unless a preview is asked for.
DefaultPreview_Off == FALSE

\* `arguments.get("preview", True)`
DefaultPreview == TRUE

\* arguments.get(key, default), an argument being None when it is not passed.
arguments_get(arguments, key, default) ==
    IF arguments[key] = None THEN default ELSE arguments[key][1]

\* The tools of the server.
ToolNames == {"brief.read", "brief.update", "brief.validate", "brief.list",
              "brief.context"}

\* `# Route to appropriate handler`: `ran` is the invocation with its handler
\* noted; an unknown name gets an error and no handler.
Route(tool, arguments, project_path, ran, analysis, topic_order) ==
    CASE tool = "brief.read" -> _handle_read(ran, project_path)
      [] tool = "brief.update" ->
            _handle_update(ran, project_path, arguments.instruction,
                           arguments_get(arguments, "preview", DefaultPreview),
                           analysis)
      [] tool = "brief.validate" -> _handle_validate(ran, project_path, topic_order)
      [] tool = "brief.list" -> _handle_list(ran, project_path)
      [] tool = "brief.context" -> _handle_context(ran, project_path, analysis)
      [] OTHER -> Reply(Invocation, "ERROR")

\* call_tool(name, arguments): the project path is checked, then the call is
\* routed to the handler of the tool.
call_tool(tool, arguments, analysis, topic_order) ==
    IF ProjectPathError(arguments.project_path) # None
    THEN Reply(Invocation, "ERROR")
    ELSE Route(tool, arguments, arguments.project_path[1],
               [Invocation EXCEPT !.handler = Some(tool)], analysis, topic_order)

\* click.confirm("Continue?", default=True): "y" and "n" answer it, an empty
\* line takes the default.
confirm(answer, default) ==
    CASE answer = "y" -> TRUE
      [] answer = "n" -> FALSE
      [] OTHER -> default

\* The prompt ends without an answer (end of input, or an interrupt):
\* click.confirm raises Abort.
confirm_aborts(answer) == answer = "abort"

\* The ways the update command ends: `sys.exit(0)` after "No changes needed"
\* or "Cancelled", the success panel, or an exception that leaves the command.
CommandStatuses(aborted) ==
    [unchanged |-> "no changes needed",
     previewed |-> IF aborted THEN "aborted" ELSE "cancelled",
     applied |-> "updated", failed |-> "raised"]

\* The update command after discovery, `files` being the files discovered.
UpdateCommandOn(st, files, instruction, yes, answer, analysis) ==
    IF files = << >> THEN Reply(st, "no files")
    ELSE IF analysis.raised THEN Reply(st, "raised")
    ELSE UpdatePasses(st, files, instruction, analysis.value,
                      yes \/ (~confirm_aborts(answer) /\ confirm(answer, TRUE)),
                      CommandStatuses(~yes /\ confirm_aborts(answer)))

\* update(instruction, project_dir, preview, yes) of the command line, the
\* prompt (if it is shown) being answered by `answer`. click has checked that
\* project_dir is an existing directory.
update(st, instruction, yes, answer, analysis) ==
    UpdateCommandOn(st, discover_instruction_files(TreeUnder(ProjectDir)),
                    instruction, yes, answer, analysis)

\* The contents the files of the project start with.
ShellContents == {"", "- Run pytest\n", "- Be kind\n"}

\* How I/O on a file of the project can fail.
ShellFaults == {"none", "missing", "read_decode", "write_denied"}

\* The instructions a client or a user adds.
ShellInstructions == {"Run pytest", "Be kind"}

\* What analyze_project_context does on the project: it returns a context, or
\* it raises.
Analyses == {[raised |-> TRUE]} \cup {[raised |-> FALSE, value |-> c] : c \in Contexts}

\* The project_path a client passes: none, an empty one, or a path.
ProjectPaths == {None, Some(""), Some(NoSuchPath), Some(RegularFile), Some(ProjectDir)}

\* The arguments a client passes with a tool: brief.update takes an
\* instruction and, optionally, preview.
ArgumentsOf(tool) ==
    IF tool = "brief.update"
    THEN [project_path : ProjectPaths, instruction : ShellInstructions,
          preview : {None, Some(TRUE), Some(FALSE)}]
    ELSE [project_path : ProjectPaths, instruction : {None}, preview : {None}]

\* The answers to the confirmation prompt.
Answers == {"y", "n", "", "abort"}

\* The prompt is shown unless --yes was given.
AnswersOf(yes) == IF yes THEN {"not asked"} ELSE Answers

\* analyze_project_context is called by brief.update and brief.context.
AnalysesOf(tool) ==
    IF tool \in {"brief.update", "brief.context"} THEN Analyses
    ELSE {[raised |-> FALSE, value |-> c] : c \in {[languages |-> << >>,
                                                     test_framework |-> None]}}

InitShell ==
    /\ disk \in [FileSet -> ShellContents]
    /\ fault \in [FileSet -> ShellFaults]
    /\ mtime = [f \in FileSet |-> 0]
    /\ call = [op |-> "none"]
    /\ ret = [status |-> "", handler |-> None, passes |-> << >>, found |-> 0]
    /\ pre = disk
    /\ reads = {}

\* A client invokes a tool of the server. What a reply is depends on the
\* project and the call alone, so a behaviour holds one call on each project.
CallTool ==
    /\ call.op = "none"
    /\ \E tool \in ToolNames \cup {"brief.delete"} :
        \E arguments \in ArgumentsOf(tool), analysis \in AnalysesOf(tool) :
            \E r \in {call_tool(tool, arguments, analysis, topic_order) :
                         topic_order \in IF tool = "brief.validate"
                                         THEN IterationOrders(TopicsOf(AllFiles))
                                         ELSE {<< >>}} :
                /\ disk' = r.disk
                /\ mtime' = r.mtime
                /\ call' = [op |-> "call_tool", name |-> tool, arguments |-> arguments]
                /\ ret' = [status |-> r.status, handler |-> r.handler,
                           passes |-> r.passes, found |-> r.found]
                /\ pre' = disk
                /\ reads' = r.reads
                /\ UNCHANGED fault

\* A user runs the update command.
CliUpdate ==
    /\ call.op = "none"
    /\ \E instruction \in ShellInstructions, yes \in BOOLEAN, analysis \in Analyses :
        \E answer \in AnswersOf(yes) :
        \E r \in {update([Invocation EXCEPT !.handler = Some("update")],
                         instruction, yes, answer, analysis)} :
            /\ disk' = r.disk
            /\ mtime' = r.mtime
            /\ call' = [op |-> "cli_update", instruction |-> instruction, yes |-> yes,
                        answer |-> answer]
            /\ ret' = [status |-> r.status, handler |-> r.handler,
                       passes |-> r.passes, found |-> r.found]
            /\ pre' = disk
            /\ reads' = r.reads
            /\ UNCHANGED fault

NextShell == CallTool \/ CliUpdate

SpecShell == InitShell /\ [][NextShell]_vars

\* The modification times no write has touched.
Untouched == mtime = [f \in FileSet |-> 0]

\* The project path of the tool invocation was supplied and is a directory
\* that exists.
PathIsProjectDirectory == call.arguments.project_path = Some(ProjectDir)

\* C17: every tool invocation checks the project path before anything else:
\* unless project_path was supplied, exists and is a directory, no handler
\* runs, no file is read or written, and the reply has the status ERROR.
C17_PathValidatedFirst ==
    (call.op = "call_tool" /\ ~PathIsProjectDirectory) =>
        /\ ret.status = "ERROR"
        /\ ret.handler = None
        /\ ret.passes = << >>
        /\ reads = {}
        /\ disk = pre
        /\ Untouched

\* brief.update with preview=false is invoked on a regular file inside a
\* project whose files could all be written: the reply is an error.
C17_Witness ==
    /\ call.op = "call_tool"
    /\ call.name = "brief.update"
    /\ call.arguments.project_path = Some(RegularFile)
    /\ call.arguments.preview = Some(FALSE)
    /\ call.arguments.instruction = "Be kind"
    /\ \A f \in FileSet : fault[f] = "none" /\ disk[f] = ""
    /\ ret.status = "ERROR"

\* A writing pass ran, or a file changed.
WritingPassRan ==
    \/ \E k \in DOMAIN ret.passes : ret.passes[k] = FALSE
    \/ disk # pre
    \/ ~Untouched

\* The answers that make click.confirm return True: "y", and the empty line
\* that takes the default.
AffirmativeAnswers == {"y", ""}

\* C18: a shell writes an instruction file only after approval. brief.update
\* writes nothing unless preview=false was passed, and without preview it
\* replies PREVIEW for the files it would update; the update command writes
\* nothing unless --yes was given or the prompt was answered yes, and a
\* declined prompt leaves every file as it was. A writing pass comes after a
\* preview pass that found at least one file to update.
C18_WritesOnlyAfterApproval ==
    /\ (call.op = "call_tool" /\ call.name = "brief.update") =>
          /\ WritingPassRan => call.arguments.preview = Some(FALSE)
          /\ (call.arguments.preview = None /\ ret.found >= 1) =>
                ret.status = "PREVIEW"
          /\ call.arguments.preview = None =>
                ret.status \in {"PREVIEW", "NO_CHANGES", "NO_FILES", "ERROR"}
    /\ call.op = "cli_update" =>
          /\ WritingPassRan => (call.yes \/ call.answer \in AffirmativeAnswers)
          /\ (~call.yes /\ call.answer = "n") =>
                (~WritingPassRan /\ ret.status \in {"cancelled", "no changes needed",
                                                   "no files", "raised"})
    /\ call.op \in {"call_tool", "cli_update"} =>
          (WritingPassRan => (ret.passes = <<TRUE, FALSE>> /\ ret.found >= 1))

\* brief.update with preview=false has written the instruction into both
\* files of the project.
C18_Witness ==
    /\ call.op = "call_tool"
    /\ call.name = "brief.update"
    /\ call.arguments.preview = Some(FALSE)
    /\ ret.status = "SUCCESS"
    /\ ret.passes = <<TRUE, FALSE>>
    /\ ret.found = 2
    /\ \A f \in FileSet : disk[f] # pre[f]

(***************************************************************************)
(* _insert_instruction on its own, applied several times in a row          *)
(***************************************************************************)

\* The contents an instruction is inserted into: sections with one block of
\* items, with none, with several blocks, with a sub-header, and files with
\* and without the reserved fallback section.
InsertContents == {
    "",
    "# Rules\n- r\n",
    "## Testing\n",
    "## Testing\n\n## Code Style\n- tidy\n",
    "## Testing\n- a\n\n## Code Style\n- tidy\n",
    "## Testing\n- a\n\n- b\n\n## Code Style\n",
    "## Testing\n- a\n### Unit\n- b\n",
    "## Additional Instructions",
    "## Additional Instructions\n\n- z\n",
    "## Additional Instructions\n- y\n\n- z\n## Code Style\n" }

\* The list lines to insert: two that select a section that is there, two that
\* select none.
InsertInstructions == {"Run tests", "Use lint", "Be kind", "Stay calm"}

\* The number of insertions made in a row.
MaxInsertions == 3

\* The branch _insert_instruction takes: the selected section, the existing
\* fallback section, or a new fallback section.
Branch(content, instruction) ==
    IF _find_best_section(content, instruction) # None THEN "section"
    ELSE IF \E p \in Indexes(split_lines(content)) :
               contains(At(split_lines(content), p), additional_section)
    THEN "existing"
    ELSE "new"

\* Nothing is on disk: the function reads no file. ret.value is the content
\* so far.
InitInsert ==
    /\ disk = EmptyDict
    /\ fault = EmptyDict
    /\ mtime = EmptyDict
    /\ pre = EmptyDict
    /\ reads = {}
    /\ \E content \in InsertContents :
          /\ call = [op |-> "args", content |-> content, instruction |-> "",
                     applied |-> << >>]
          /\ ret = [raised |-> FALSE, value |-> content]

\* _insert_instruction is called on the content so far and an instruction not
\* yet inserted (the updater skips an instruction that is present).
Insert ==
    /\ Len(call.applied) < MaxInsertions
    /\ \E instruction \in InsertInstructions :
          /\ \A k \in DOMAIN call.applied : call.applied[k].instruction # instruction
          /\ call' = [op |-> "_insert_instruction", content |-> ret.value,
                      instruction |-> instruction,
                      applied |-> Append(call.applied,
                                         [instruction |-> instruction,
                                          branch |-> Branch(ret.value, instruction)])]
          /\ ret' = [raised |-> FALSE,
                     value |-> _insert_instruction(ret.value, instruction)]
    /\ UNCHANGED <<disk, fault, mtime, pre, reads>>

NextInsert == Insert

SpecInsert == InitInsert /\ [][NextInsert]_vars

\* The greatest element of a set of numbers.
Max(S) == CHOOSE x \in S : \A y \in S : y <= x

\* The 0-based index of the header of the selected section.
SelectedHeader(lines, content, instruction) ==
    Min({p \in Indexes(lines) :
            strip(At(lines, p)) = _find_best_section(content, instruction)[1]})

\* The 0-based index of the line that ends the section whose header is line i:
\* the next second-level header, or the end of the file.
SectionEnd(lines, i) ==
    Min({q \in (i + 1)..(Len(lines) - 1) : IsSecondLevelHeader(At(lines, q))}
        \cup {Len(lines)})

\* The list items of the section whose header is line i.
SectionItems(lines, i) ==
    {p \in (i + 1)..(SectionEnd(lines, i) - 1) : startswith(strip(At(lines, p)), "- ")}

\* Where the new list line belongs by C19: after the last item of the
\* section; in a section with no item, anywhere up to its first line that is
\* not blank (directly after the header, blank lines apart).
ClaimedPositions(lines, i) ==
    IF SectionItems(lines, i) # {}
    THEN {Max(SectionItems(lines, i)) + 1}
    ELSE {q \in (i + 1)..SectionEnd(lines, i) :
             \A p \in (i + 1)..(q - 1) : strip(At(lines, p)) = ""}

\* The content with the list line at position q, with or without a blank line
\* after it.
WithLineAt(lines, q, instruction) ==
    {join("\n", list_insert(lines, q, "- " \o instruction)),
     join("\n", list_insert(list_insert(lines, q, "- " \o instruction), q + 1, ""))}

\* C19: when a section is selected, the new list line is inserted inside that
\* section, after the section's last item (directly after the header when the
\* section is empty) and before the next second-level header, also when the
\* section has several blocks separated by blank lines or a ### sub-header.
C19_InsertedAfterLastItem ==
    (call.op = "_insert_instruction"
     /\ Branch(call.content, call.instruction) = "section") =>
        \A lines \in {split_lines(call.content)} :
            \A i \in {SelectedHeader(lines, call.content, call.instruction)} :
                \E q \in ClaimedPositions(lines, i) :
                    ret.value \in WithLineAt(lines, q, call.instruction)

\* The first 0-based index from `from` on whose line is in the set `stops` of
\* indexes, or the number of lines when there is none.
FirstFrom(lines, from, stops) ==
    Min({q \in from..(Len(lines) - 1) : q \in stops} \cup {Len(lines)})

\* The indexes of the blank lines, and of the lines that are headers (their
\* stripped text starts with "##").
BlankLines(lines) == {q \in Indexes(lines) : strip(At(lines, q)) = ""}

HeaderLines(lines) == {q \in Indexes(lines) : startswith(strip(At(lines, q)), "##")}

\* Where the new list line belongs by C20: after the first line that contains
\* the reserved header, after the blank lines that follow it, and after the run
\* of lines up to the first blank line or header.
FallbackPosition(lines) ==
    LET header == Min({p \in Indexes(lines) : contains(At(lines, p), additional_section)})
        first_item == FirstFrom(lines, header + 1, Indexes(lines) \ BlankLines(lines))
    IN  FirstFrom(lines, first_item, BlankLines(lines) \cup HeaderLines(lines))

\* The 0-based index of the list line of an instruction in the content so far.
LineOf(instruction) ==
    Min({p \in Indexes(split_lines(ret.value)) :
            At(split_lines(ret.value), p) = "- " \o instruction})

\* C20: when no section is selected and a line contains "## Additional
\* Instructions", the new list line is inserted after that header, after the
\* blank lines following it and after the run of existing items, which ends at
\* the first blank line or next header; no blank line is added; so the lines
\* of successive fallback insertions stand in the order they were applied.
C20_FallbackIntoExistingSection ==
    call.op = "_insert_instruction" =>
        /\ Branch(call.content, call.instruction) = "existing" =>
              \A lines \in {split_lines(call.content)} :
                  /\ ret.value = join("\n", list_insert(lines, FallbackPosition(lines),
                                                        "- " \o call.instruction))
                  /\ Len(split_lines(ret.value)) = Len(lines) + 1
        /\ \A k, l \in DOMAIN call.applied :
              (/\ k < l
               /\ call.applied[k].branch # "section"
               /\ call.applied[l].branch = "existing") =>
                  LineOf(call.applied[k].instruction) < LineOf(call.applied[l].instruction)

\* Two instructions in a row went into an existing fallback section that held
\* an item: they follow the item in the order they were applied.
C20_Witness ==
    /\ call.op = "_insert_instruction"
    /\ Len(call.applied) = 2
    /\ call.applied[1] = [instruction |-> "Be kind", branch |-> "existing"]
    /\ call.applied[2] = [instruction |-> "Stay calm", branch |-> "existing"]
    /\ ret.value = "## Additional Instructions\n\n- z\n- Be kind\n- Stay calm\n"

\* The new fallback section: the header, a blank line, the list line and a
\* trailing newline.
NewSection(instruction) == additional_section \o "\n\n- " \o instruction \o "\n"

\* The last call of _insert_instruction created the fallback section.
CreatedSection ==
    call.op = "_insert_instruction" /\ Branch(call.content, call.instruction) = "new"

\* C21 as stated: when no section is selected and no line contains the
\* reserved header, the result is the content with trailing whitespace trimmed
\* followed by the new section, which a blank line precedes when the trimmed
\* content is not empty.
C21_NewSectionAfterBlankLine ==
    CreatedSection =>
        ret.value = (IF rstrip(call.content) # ""
                     THEN rstrip(call.content) \o "\n\n" \o NewSection(call.instruction)
                     ELSE NewSection(call.instruction))

\* C21 amended: when no section is selected and no line contains the reserved
\* header, the result is the content with trailing whitespace trimmed followed
\* by the new section; when the trimmed content is not empty the header stands
\* on the line directly after its last line, with no blank line between.
C21_NewSectionOnNextLine ==
    CreatedSection =>
        ret.value = (IF rstrip(call.content) # ""
                     THEN rstrip(call.content) \o "\n" \o NewSection(call.instruction)
                     ELSE NewSection(call.instruction))

\* The section was created at the end of a file that held lines.
C21_Witness ==
    /\ CreatedSection
    /\ call.content = "# Rules\n- r\n"
    /\ call.instruction = "Be kind"
    /\ ret.value = "# Rules\n- r\n## Additional Instructions\n\n- Be kind\n"

\* The line sequences that are `lines` with the sequence `added` put in at one
\* point, every line of `lines` kept as it was and where it was.
WithAdded(lines, added) ==
    {SubSeq(lines, 1, q) \o added \o SubSeq(lines, q + 1, Len(lines)) :
        q \in 0..Len(lines)}

\* C22: an insertion into a selected section returns the old lines with
\* exactly two lines added at one point, the list line and a blank line after
\* it; an insertion into an existing fallback section returns the old lines
\* with exactly the list line added. No old line is deleted, altered or moved.
C22_InsertionKeepsLines ==
    call.op = "_insert_instruction" =>
        /\ Branch(call.content, call.instruction) = "section" =>
              split_lines(ret.value)
                 \in WithAdded(split_lines(call.content),
                               <<"- " \o call.instruction, "">>)
        /\ Branch(call.content, call.instruction) = "existing" =>
              split_lines(ret.value)
                 \in WithAdded(split_lines(call.content), <<"- " \o call.instruction>>)

\* A list line and a blank line went into a selected section that is followed
\* by another section.
C22_Witness ==
    /\ call.op = "_insert_instruction"
    /\ Branch(call.content, call.instruction) = "section"
    /\ call.content = "## Testing\n- a\n\n## Code Style\n- tidy\n"
    /\ ret.value = "## Testing\n- a\n- Run tests\n\n\n## Code Style\n- tidy\n"

(***************************************************************************)
(* _extract_instruction_topics on its own                                  *)
(***************************************************************************)

\* The lines a content is made of: headers, bold spans and list items, with
\* modal words, punctuation and runs of blanks, and a horizontal rule.
TopicLines == <<
    "## Testing",
    "##",
    "### Code-Style (v2)",
    "- Never  commit secrets.",
    "- Must always run tests",
    "- !!!",
    "---",
    "**Should lint**",
    "**?!**",
    "1. Do not skip tests",
    "* don't  Don't panic",
    "Plain text" >>

\* The contents topics are extracted from: two lines each.
TopicContents ==
    {TopicLines[j] \o "\n" \o TopicLines[k] : j, k \in DOMAIN TopicLines}

\* Nothing is on disk: the function reads no file.
InitTopics ==
    /\ disk = EmptyDict
    /\ fault = EmptyDict
    /\ mtime = EmptyDict
    /\ pre = EmptyDict
    /\ reads = {}
    /\ \E content \in TopicContents : call = [op |-> "args", content |-> content]
    /\ ret = [raised |-> FALSE, value |-> {}]

\* _extract_instruction_topics is called on the content.
ExtractTopics ==
    /\ call.op = "args"
    /\ call' = [call EXCEPT !.op = "_extract_instruction_topics"]
    /\ ret' = [raised |-> FALSE, value |-> _extract_instruction_topics(call.content)]
    /\ UNCHANGED <<disk, fault, mtime, pre, reads>>

NextTopics == ExtractTopics

SpecTopics == InitTopics /\ [][NextTopics]_vars

\* C23: the topic set extracted from a content never contains the empty
\* string: a header, bold span or list item whose text normalizes to nothing
\* contributes no topic.
C23_NoEmptyTopic ==
    call.op = "_extract_instruction_topics" => "" \notin ret.value

\* The modal and negation words a topic is not to begin with.
ModalWords == {"always", "never", "must", "should", "do not", "don't"}

\* t is in normal form: lower-cased, without punctuation, its words separated
\* by single blanks with none at either end, not beginning with a modal or
\* negation word, and unchanged by another normalization.
IsNormalForm(t) ==
    /\ lower(t) = t
    /\ StripPunctuation(t) = t
    /\ join(" ", split(t)) = t
    /\ \A m \in ModalWords : t # m /\ ~startswith(t, m \o " ")
    /\ _normalize_topic(t) = t

\* C24: every topic produced by the extractor is in normal form.
C24_TopicsInNormalForm ==
    call.op = "_extract_instruction_topics" => \A t \in ret.value : IsNormalForm(t)

(***************************************************************************)
(* _check_latest_update on its own, over three files                       *)
(***************************************************************************)

\* The files validate_instructions was given, in order.
LatestFiles == <<"AGENTS.md", "CLAUDE.md", ".cursorrules">>

\* The contents of the files: with and without the latest instruction, one
\* with a near copy of it, one that ends in trailer lines.
LatestContents == {
    "",
    "- run all tests\n",
    "- run all test\n",
    "# Notes\n- Be kind\n---\nLast updated: today\n" }

\* file_contents holds the files that could be read: any of the files, each
\* with one of the contents, and modification times that may be equal.
InitLatest ==
    /\ disk = EmptyDict
    /\ fault = EmptyDict
    /\ mtime = EmptyDict
    /\ pre = EmptyDict
    /\ reads = {}
    /\ \E readable \in SUBSET Range(LatestFiles) :
       \E file_contents \in [readable -> LatestContents],
          mt \in [Range(LatestFiles) -> 0..1] :
          call = [op |-> "args", keys |-> FilterSeq(LatestFiles, readable),
                  file_contents |-> file_contents, mt |-> mt]
    /\ ret = [raised |-> FALSE, value |-> << >>]

\* _check_latest_update is called on file_contents.
CheckLatest ==
    /\ call.op = "args"
    /\ call' = [call EXCEPT !.op = "_check_latest_update"]
    /\ ret' = [raised |-> FALSE,
               value |-> _check_latest_update(call.keys, call.file_contents, call.mt)]
    /\ UNCHANGED <<disk, fault, mtime, pre, reads>>

NextLatest == CheckLatest

SpecLatest == InitLatest /\ [][NextLatest]_vars

\* The files of greatest modification time among the readable ones.
NewestFiles ==
    {f \in Range(call.keys) : \A g \in Range(call.keys) : call.mt[g] <= call.mt[f]}

\* The readable files other than f that are not judged to hold the sample of f.
MissingSampleOf(f) ==
    {g \in Range(call.keys) \ {f} :
        ~_content_contains_similar(call.file_contents[g],
                                   _extract_recent_instructions(call.file_contents[f]))}

\* The words with which an issue of the check names the newest file f.
IssueHead(f) == "Recent update in '" \o name(f) \o "' may be missing from: "

\* The issues are as C25 says for the newest file f: none when the sample of f
\* is empty or no other file misses it; otherwise one, which names f and
\* exactly the files that miss the sample.
IssuesAsClaimed(f) ==
    IF _extract_recent_instructions(call.file_contents[f]) = "" \/ MissingSampleOf(f) = {}
    THEN ret.value = << >>
    ELSE /\ Len(ret.value) = 1
         /\ startswith(ret.value[1], IssueHead(f))
         /\ \A g \in Range(call.keys) \ {f} :
               g \in MissingSampleOf(f)
                  <=> contains(SubSeq(ret.value[1], Len(IssueHead(f)) + 1,
                                      Len(ret.value[1])), name(g))

\* C25: over at least two readable files the newest file supplies the sample;
\* an issue is recorded iff the sample is not empty and some other file is not
\* judged to hold it; there is at most one issue, and it names the newest file
\* and exactly the files that miss the sample.
C25_LatestUpdatePropagation ==
    (call.op = "_check_latest_update" /\ Len(call.keys) >= 2) =>
        /\ Len(ret.value) <= 1
        /\ \E f \in NewestFiles : IssuesAsClaimed(f)

\* Of three readable files the newest holds an instruction that one of the
\* others has and the other has not: the issue names the one without it.
C25_Witness ==
    /\ call.op = "_check_latest_update"
    /\ Len(call.keys) = 3
    /\ call.mt = [f \in Range(LatestFiles) |-> IF f = "CLAUDE.md" THEN 1 ELSE 0]
    /\ call.file_contents["CLAUDE.md"] = "- run all tests\n"
    /\ call.file_contents["AGENTS.md"] = "# Notes\n- Be kind\n---\nLast updated: today\n"
    /\ call.file_contents[".cursorrules"] = "- run all tests\n"
    /\ ret.value = <<"Recent update in 'CLAUDE.md' may be missing from: AGENTS.md">>

(***************************************************************************)
(* _check_instruction_consistency on its own, over three files             *)
(***************************************************************************)

\* The contents of the files: no topic, four topics, one topic that words one
\* of the four differently, and two of the four.
CoverageContents == {
    "",
    "- run tests\n- use lint\n- be kind\n- stay calm\n",
    "- run all tests\n",
    "- be kind\n- use lint\n" }

\* file_contents holds the files that could be read: any of the files, each
\* with one of the contents.
InitCoverage ==
    /\ disk = EmptyDict
    /\ fault = EmptyDict
    /\ mtime = EmptyDict
    /\ pre = EmptyDict
    /\ reads = {}
    /\ \E readable \in SUBSET Range(LatestFiles) :
       \E file_contents \in [readable -> CoverageContents] :
          call = [op |-> "args", keys |-> FilterSeq(LatestFiles, readable),
                  file_contents |-> file_contents]
    /\ ret = [raised |-> FALSE, value |-> << >>]

\* _check_instruction_consistency is called on file_contents; the set
\* all_topics is iterated in some order.
CheckCoverage ==
    /\ call.op = "args"
    /\ \E topic_order \in IterationOrders(all_topics(call.file_contents)) :
          ret' = [raised |-> FALSE,
                  value |-> _check_instruction_consistency(call.keys, call.file_contents,
                                                           topic_order)]
    /\ call' = [call EXCEPT !.op = "_check_instruction_consistency"]
    /\ UNCHANGED <<disk, fault, mtime, pre, reads>>

NextCoverage == CheckCoverage

SpecCoverage == InitCoverage /\ [][NextCoverage]_vars

\* The topic set of a readable file.
TopicSetOf(f) == _extract_instruction_topics(call.file_contents[f])

\* The words of a topic.
TopicWords(t) == Range(split(t))

\* Topic t is covered in file f under different wording: at least half of its
\* words occur in one topic of f.
CoveredIn(f, t) ==
    \E own \in TopicSetOf(f) :
        /\ TopicWords(t) # {}
        /\ 2 * Cardinality(TopicWords(t) \cap TopicWords(own)) >= Cardinality(TopicWords(t))

\* The topics of other files that file f lacks and does not cover.
MissingTopics(f) ==
    {t \in UNION {TopicSetOf(g) : g \in Range(call.keys) \ {f}} :
        t \notin TopicSetOf(f) /\ ~CoveredIn(f, t)}

\* The words with which an issue names file f.
CoverageHead(f) == "'" \o name(f) \o "' may be missing guidance on: "

\* The issues the result holds for file f.
CoverageIssuesOf(f) ==
    {k \in DOMAIN ret.value : startswith(ret.value[k], CoverageHead(f))}

\* The texts an issue for file f may have by C26: up to three of its missing
\* topics, each once, and the number of the others when there are more.
ClaimedIssues(f) ==
    LET n == Cardinality(MissingTopics(f))
        shown == IF n > 3 THEN 3 ELSE n
    IN  {CoverageHead(f) \o join(", ", named)
            \o (IF n > 3 THEN " (+" \o ToString(n - 3) \o " more)" ELSE "") :
         named \in {s \in [1..shown -> MissingTopics(f)] :
                       \A i, j \in 1..shown : s[i] = s[j] => i = j}}

\* C26: a file gets a "may be missing guidance" issue iff a topic of another
\* file is absent from its topic set and not covered under different wording;
\* it gets at most one, which names at most three topics and then "(+N more)"
\* with N the number of the others; files whose topic sets are all the same
\* get none.
C26_TopicCoverage ==
    call.op = "_check_instruction_consistency" =>
        /\ \A f \in Range(call.keys) :
              IF MissingTopics(f) = {} THEN CoverageIssuesOf(f) = {}
              ELSE /\ Cardinality(CoverageIssuesOf(f)) = 1
                   /\ \A k \in CoverageIssuesOf(f) : ret.value[k] \in ClaimedIssues(f)
        /\ \A k \in DOMAIN ret.value : \E f \in Range(call.keys) : k \in CoverageIssuesOf(f)
        /\ (\A f, g \in Range(call.keys) : TopicSetOf(f) = TopicSetOf(g)) =>
              ret.value = << >>

\* A file without topics stands beside files with five topics between them:
\* its issue names three and counts two more; the file with the four topics
\* has none, and the file that words a topic differently is not told that
\* topic.
C26_Witness ==
    /\ call.op = "_check_instruction_consistency"
    /\ call.keys = LatestFiles
    /\ call.file_contents["AGENTS.md"] = ""
    /\ call.file_contents["CLAUDE.md"] = "- run tests\n- use lint\n- be kind\n- stay calm\n"
    /\ call.file_contents[".cursorrules"] = "- run all tests\n"
    /\ Len(ret.value) = 2
    /\ startswith(ret.value[1], "'AGENTS.md' may be missing guidance on: ")
    /\ contains(ret.value[1], " (+2 more)")
    /\ startswith(ret.value[2], "'.cursorrules' may be missing guidance on: ")
    /\ ~contains(ret.value[2], "run tests")

\* C27: in every entry update returns, changed is true iff new_content differs
\* from old_content: an insertion gives content that differs from the
\* original, and a skipped file carries the same content twice.
C27_ChangedIffContentDiffers ==
    UpdateReturned =>
        \A f \in DOMAIN ret.value :
            ret.value[f].was_updated <=> ret.value[f].new_content # ret.value[f].old_content

\* C27 witness: one update returned an entry for a file it changed and an
\* entry for a file it skipped.
C27_Witness ==
    /\ UpdateReturned
    /\ \E f, g \in DOMAIN ret.value :
          /\ ret.value[f].was_updated
          /\ ~_instruction_exists(ret.value[f].old_content, call.instruction)
          /\ ~ret.value[g].was_updated
          /\ _instruction_exists(ret.value[g].old_content, call.instruction)

(***************************************************************************)
(* A sequence of applied updates to one file                               *)
(***************************************************************************)

\* The file the updates go to.
SequenceFile == "AGENTS.md"

\* The number of updates in a row.
MaxUpdates == 3

\* The instructions of the sequence: one that holds another, one that a file
\* holds in other words, one without a section of its own.
SequenceInstructions == {
    "Run pytest before committing",
    "Run pytest",
    "Be kind",
    "Always run all unit tests" }

\* One file that can be read and written. call.inserted lists the instructions
\* the updates have inserted so far, call.count the updates made.
InitSequence ==
    /\ disk \in [{SequenceFile} -> Contents]
    /\ fault = [f \in {SequenceFile} |-> "none"]
    /\ mtime = [f \in {SequenceFile} |-> 0]
    /\ call = [op |-> "none", instruction |-> "", context |-> [languages |-> << >>,
               test_framework |-> None], inserted |-> << >>, count |-> 0]
    /\ ret = [raised |-> FALSE, value |-> EmptyDict]
    /\ pre = disk
    /\ reads = {}

\* A shell applies update_instruction_files to the file: any instruction, under
\* any context, without preview.
UpdateInSequence ==
    /\ call.count < MaxUpdates
    /\ \E instruction \in SequenceInstructions, context \in Contexts :
       \E r \in {update_instruction_files(<<SequenceFile>>, instruction, context, FALSE)} :
            /\ disk' = r.disk
            /\ mtime' = r.mtime
            /\ call' = [op |-> "update", instruction |-> instruction, context |-> context,
                        inserted |-> IF r.updates[SequenceFile].was_updated
                                     THEN Append(call.inserted, instruction)
                                     ELSE call.inserted,
                        count |-> call.count + 1]
            /\ ret' = [raised |-> r.raised, value |-> r.updates]
            /\ pre' = disk
            /\ reads' = r.reads
            /\ UNCHANGED fault

NextSequence == UpdateInSequence

SpecSequence == InitSequence /\ [][NextSequence]_vars

\* The duplicate check finds the instruction in the file as it is.
JudgedPresent(instruction) == _instruction_exists(disk[SequenceFile], instruction)

\* An update: what was judged present before it is judged present after it,
\* and if its own instruction was judged present it reports changed=false and
\* leaves the file.
PresenceKept ==
    \A instruction \in SequenceInstructions :
        JudgedPresent(instruction) =>
            /\ _instruction_exists(disk'[SequenceFile], instruction)
            /\ call'.instruction = instruction =>
                  /\ ~ret'.value[SequenceFile].was_updated
                  /\ disk' = disk

\* C28: after any sequence of applied updates to one file, every instruction
\* inserted earlier or judged present before is still judged present by the
\* duplicate check; re-applying it returns changed=false, and no instruction
\* is inserted twice.
C28_PresenceStable ==
    /\ [](\A k \in DOMAIN call.inserted :
             /\ JudgedPresent(call.inserted[k])
             /\ \A j \in DOMAIN call.inserted : call.inserted[j] = call.inserted[k] => j = k)
    /\ [][PresenceKept]_vars

\* C28 witness: two instructions were inserted one after the other, and the
\* first was then applied again and skipped.
C28_Witness ==
    /\ call.op = "update"
    /\ call.count = 3
    /\ Len(call.inserted) = 2
    /\ call.instruction = call.inserted[1]
    /\ ~ret.value[SequenceFile].was_updated
    /\ disk = pre

\* The number of lines of content that contain "## Additional Instructions".
FallbackHeaders(content) ==
    Cardinality({p \in Indexes(split_lines(content)) :
                    contains(At(split_lines(content), p), "## Additional Instructions")})

\* C29: a file with at most one line containing "## Additional Instructions"
\* has at most one after any sequence of updates whose instructions do not
\* contain that string; an update appends the section only to a file that has
\* none.
C29_FallbackSectionOnce ==
    /\ FallbackHeaders(pre[SequenceFile]) <= 1 => FallbackHeaders(disk[SequenceFile]) <= 1
    /\ FallbackHeaders(disk[SequenceFile]) # FallbackHeaders(pre[SequenceFile]) =>
          /\ FallbackHeaders(pre[SequenceFile]) = 0
          /\ FallbackHeaders(disk[SequenceFile]) = 1

\* C29 witness: the first update of an empty file made the section, the second
\* went into it.
C29_Witness ==
    /\ call.op = "update"
    /\ call.inserted = <<"Be kind", "Run pytest">>
    /\ pre[SequenceFile] = "## Additional Instructions\n\n- Be kind\n"
    /\ disk[SequenceFile] = "## Additional Instructions\n\n- Be kind\n- Run pytest\n"

\* C30: every validation returns a flag all_valid that is true iff the issue
\* list it returns is empty; a validation of two or more files of which one
\* is missing or cannot be read returns all_valid false.
C30_ValidIffNoIssues ==
    call.op = "validate" =>
        /\ ~ret.raised
        /\ ret.value.all_valid <=> ret.value.issues = << >>
        /\ (Len(call.files) >= 2 /\ \E f \in Range(call.files) : fault[f] # "none")
              => ~ret.value.all_valid

=============================================================================
